---- MODULE Spec2Model ----
(***************************************************************************)
(* Traffic-control and resilience layer of the translation service:        *)
(*   - CircuitBreaker          (src/rectif/circuit_breaker.py)             *)
(*   - RateLimiter             (src/production/security/rate_limiter.py)   *)
(*   - RetryHandler            (src/production/reliability/retry_handler.py)*)
(*   - CacheManager            (src/production/scalability/cache_manager.py)*)
(*   - /translate/text         (src/production/api.py)                     *)
(* Each component has its own specification (SpecCB, SpecRL, SpecRetry,    *)
(* SpecCache); the variables of the other components stay at their initial *)
(* values.  SpecAPI runs the endpoint over limiter, cache and breaker.      *)
(***************************************************************************)
EXTENDS Integers, Sequences, FiniteSets, TLC

VARIABLES
    \* ---- CircuitBreaker attributes (circuit_breaker.py:54-69)
    state, failure_count, last_failure_time,
    total_calls, total_failures, total_successes,
    failure_threshold, recovery_timeout, expected_exception,
    \* ---- calls going through the breaker (the `with breaker:` blocks)
    cb_call,      \* per caller: position and how it was admitted
    invoked,      \* history: number of times the protected operation was started
    consecutive,  \* history: failures recorded since the last success or reset
    cb_ev,        \* history: the last breaker operation and the state it found
    \* ---- RateLimiter and the external store it shares (rate_limiter.py)
    enabled,         \* RateLimiter.enabled (REDIS_AVAILABLE at start-up)
    max_requests, window_seconds,   \* the tier's limit and window
    zsets,           \* store: key -> sorted set (members str(now), scores now)
    expires,         \* store: key -> time at which the key expires
    rl_call,         \* per caller: position in check_rate_limit and its locals
    rl_ev,           \* history: the last check_rate_limit that returned
    rl_log,          \* history: every check that reached the store, in order
    \* ---- one call of a RetryHandler-wrapped operation (retry_handler.py)
    max_attempts, exceptions, jitter, max_delay,   \* the handler's settings
    script,          \* what the wrapped operation does on its 1st, 2nd, ... call
    attempt, last_exception,                       \* wrapper's locals
    rt_pc,           \* wrapper's position: loop, calling, sleeping, done
    invocations,     \* history: calls of the wrapped operation so far
    sleeps,          \* history: the backoff delays slept so far
    rt_result,       \* how the wrapper ended: value returned or error raised
    cancelled,       \* history: where the task running the wrapper was cancelled
    \* ---- CacheManager and the string keys of the shared store (cache_manager.py)
    cache_enabled,   \* CacheManager.enabled (ping succeeded at start-up)
    hits, misses, sets,             \* the cache's counters
    strings,         \* store: key -> pickled value and the time it expires
    cache_ev,        \* history: the last cache operation and what it found
    last_set,        \* history: per key, the last set() call and what followed
    \* ---- requests going through POST /translate/text (api.py)
    api_call,        \* per caller: position in the handler and its locals
    api_ev,          \* history: the last response sent and how it came about
    \* ---- lazy model loading (api.py:352-400, async_translator.py:91-151)
    translator_loaded,  \* the module-level `translator` is not None
    models_loading,     \* _models_loading
    models_lock,        \* _models_lock: its holder and the requests waiting
    ld_call,            \* per request: position, load attempt, response
    ld_served,          \* history: requests answered so far
    ld_failed,          \* history: loads that ended in failure
    \* ---- one call of RateLimiter._get_identifier (rate_limiter.py:37-50)
    id_request,         \* the request and user data passed in
    id_result,          \* the identifier returned
    \* ---- the breakers of the process and their registry (circuit_breaker.py)
    made,               \* per name: the CircuitBreaker object created, if any
    breakers,           \* registry.breakers: the names registered
    reg_ev,             \* history: the last operation and what it found
    \* ---- calculate_delay on its own (retry_handler.py:54-63)
    delays,             \* the delays returned for attempts 0, 1, 2, ...
    \* ---- CacheManager._generate_key on its own (cache_manager.py:88-106)
    kg_digest,          \* what sha256(...).hexdigest()[:16] is for each data_str
    kg_log,             \* history: the calls made and the keys returned
    \* ---- CacheManager.get_stats (cache_manager.py:207-230)
    st_ev,              \* the stats last returned
    \* ---- the breakers the decorators put around functions
    wrapped,            \* per breaker name: the attributes of the breaker
    \* ---- AsyncRealtimeTranslator.process_audio (async_translator.py:263-318)
    active_requests,
    total_requests,
    failed_requests,
    max_concurrent_requests,
    pa_call,            \* per call: where it is, and what it did so far
    pa_ev,              \* history: the last call that ended
    \* ---- POST /translate/text of rest_api_v2.py (lines 224-314)
    v2_call,            \* per request: where it is
    v2_ev,              \* history: the requests so far
    \* ---- wall clock (datetime.now() / time.time()), whole seconds
    clock

cbVars == <<state, failure_count, last_failure_time, total_calls, total_failures,
            total_successes, failure_threshold, recovery_timeout,
            expected_exception, cb_call, invoked, consecutive, cb_ev>>

rlVars == <<enabled, max_requests, window_seconds, zsets, expires, rl_call,
            rl_ev, rl_log>>

retryVars == <<max_attempts, exceptions, jitter, max_delay, script, attempt,
               last_exception, rt_pc, invocations, sleeps, rt_result,
               cancelled>>

cacheVars == <<cache_enabled, hits, misses, sets, strings, cache_ev, last_set>>

apiVars == <<api_call, api_ev>>

loadVars == <<translator_loaded, models_loading, models_lock, ld_call, ld_served, ld_failed>>

\* the components added to the service around the four above
identVars == <<id_request, id_result>>

registryVars == <<made, breakers, reg_ev>>

delayVars == <<delays>>

keyVars == <<kg_digest, kg_log>>

statsVars == <<st_ev>>

audioVars == <<active_requests, total_requests, failed_requests,
               max_concurrent_requests, pa_call, pa_ev>>

v2Vars == <<v2_call, v2_ev>>

wrapVars == <<wrapped, audioVars, v2Vars>>

auxVars == <<delayVars, keyVars, statsVars, wrapVars>>

extraVars == <<loadVars, identVars, registryVars, auxVars>>

vars == <<cbVars, rlVars, retryVars, cacheVars, apiVars, extraVars, clock>>

\* what the breaker's operations leave alone
nonCB == <<rlVars, retryVars, cacheVars, apiVars, extraVars>>

\* what the limiter's operations leave alone
nonRL == <<cbVars, retryVars, cacheVars, apiVars, extraVars>>

\* what the retry wrapper's steps leave alone
nonRetry == <<cbVars, rlVars, cacheVars, apiVars, extraVars, clock>>

----------------------------------------------------------------------------
(* Bounds of the model *)

MaxThreshold == 3
MaxTime == 4
MaxCalls == 5
\* the recovery_timeout values tried (seconds)
RecoveryTimeouts == {1, 2}
\* concurrent requests going through one breaker / limiter
Callers == {"c1", "c2"}
\* a burst of three concurrent calls through one breaker
BurstCallers == {"c1", "c2", "c3"}

Max(a, b) == IF a >= b THEN a ELSE b
Min(a, b) == IF a <= b THEN a ELSE b

----------------------------------------------------------------------------
(* Exception classes and Python's issubclass *)

NoExc == "none"

ExcClasses == {"BaseException", "Exception", "ValueError", "TimeoutError",
               "CancelledError", "CircuitBreakerError", "RetryExhausted",
               "ConnectionError", "HTTPException"}

\* direct base class of each exception class (asyncio.CancelledError derives
\* from BaseException, the others from Exception)
Base(cls) ==
    CASE cls = "Exception"           -> "BaseException"
      [] cls = "ValueError"          -> "Exception"
      [] cls = "TimeoutError"        -> "Exception"
      [] cls = "CircuitBreakerError" -> "Exception"
      [] cls = "RetryExhausted"      -> "Exception"
      [] cls = "ConnectionError"     -> "Exception"
      [] cls = "HTTPException"       -> "Exception"
      [] cls = "CancelledError"      -> "BaseException"
      [] OTHER                       -> "BaseException"

RECURSIVE issubclass(_, _)
issubclass(cls, parent) ==
    IF cls = parent THEN TRUE
    ELSE IF cls = "BaseException" THEN FALSE
    ELSE issubclass(Base(cls), parent)

\* what the protected operation may end with: a normal return or one of these
Raisable == {"ValueError", "TimeoutError", "CancelledError"}

----------------------------------------------------------------------------
(* CircuitBreaker *)

CLOSED == "closed"
OPEN == "open"
HALF_OPEN == "half_open"

NoTime == 0 - 1     \* last_failure_time = None

IdleCall == [pc |-> "idle", entry_state |-> CLOSED]

\* faulty variant: strict comparison with the recovery timeout
ShouldAttemptResetStrict ==
    IF last_failure_time = NoTime THEN TRUE
    ELSE (clock - last_failure_time) > recovery_timeout

_should_attempt_reset ==
    IF last_failure_time = NoTime THEN TRUE
    ELSE (clock - last_failure_time) >= recovery_timeout

\* faulty variant: opens only above the threshold
OnFailureAboveThreshold ==
    /\ failure_count' = failure_count + 1
    /\ total_failures' = total_failures + 1
    /\ last_failure_time' = clock
    /\ state' = IF state = HALF_OPEN THEN OPEN
                ELSE IF failure_count + 1 > failure_threshold THEN OPEN
                ELSE state
    /\ UNCHANGED total_successes

_on_failure ==
    /\ failure_count' = failure_count + 1
    /\ total_failures' = total_failures + 1
    /\ last_failure_time' = clock
    /\ state' = IF state = HALF_OPEN THEN OPEN
                ELSE IF failure_count + 1 >= failure_threshold THEN OPEN
                ELSE state
    /\ UNCHANGED total_successes

\* faulty variant: a success clears failure_count in every state
OnSuccessClears ==
    /\ total_successes' = total_successes + 1
    /\ state' = IF state = HALF_OPEN THEN CLOSED ELSE state
    /\ failure_count' = 0
    /\ UNCHANGED <<last_failure_time, total_failures>>

\* faulty variant: a success is not counted
OnSuccessUncounted ==
    /\ state' = IF state = HALF_OPEN THEN CLOSED ELSE state
    /\ LET cleared == IF state = HALF_OPEN THEN 0 ELSE failure_count
       IN  failure_count' = IF cleared > 0 THEN Max(0, cleared - 1) ELSE cleared
    /\ UNCHANGED <<last_failure_time, total_failures, total_successes>>

\* faulty variant: the recovery branch forgets to clear failure_count
OnSuccessNoClear ==
    /\ total_successes' = total_successes + 1
    /\ state' = IF state = HALF_OPEN THEN CLOSED ELSE state
    /\ failure_count' = IF failure_count > 0
                        THEN Max(0, failure_count - 1) ELSE failure_count
    /\ UNCHANGED <<last_failure_time, total_failures>>

_on_success ==
    /\ total_successes' = total_successes + 1
    /\ state' = IF state = HALF_OPEN THEN CLOSED ELSE state
    /\ LET cleared == IF state = HALF_OPEN THEN 0 ELSE failure_count
       IN  failure_count' = IF cleared > 0 THEN Max(0, cleared - 1) ELSE cleared
    /\ UNCHANGED <<last_failure_time, total_failures>>

\* number of calls in flight that were admitted while the breaker was
\* HALF_OPEN or that moved it to HALF_OPEN
ProbesInFlight ==
    Cardinality({c \in DOMAIN cb_call : /\ cb_call[c].pc = "running"
                                        /\ cb_call[c].entry_state # CLOSED})

\* number of calls in flight
InFlight == Cardinality({c \in DOMAIN cb_call : cb_call[c].pc = "running"})

\* __exit__ returns False in both branches (lines 92 and 96): the error the
\* operation raised goes on to the caller
suppresses == FALSE

\* op by caller c: ended is how the protected operation ended, raised what
\* the caller gets, recorded the outcome the breaker counted
Event(op, c, ended, raised, recorded) ==
    [op |-> op, caller |-> c, ended |-> ended,
     pre_state |-> state, pre_fc |-> failure_count,
     pre_lft |-> last_failure_time, pre_invoked |-> invoked,
     pre_probes |-> ProbesInFlight, pre_running |-> InFlight,
     pre_failures |-> total_failures, pre_calls |-> total_calls,
     pre_successes |-> total_successes, at |-> clock,
     raised |-> raised, recorded |-> recorded]

\* faulty variant: the breaker is held for the whole protected call
CallHoldsBreaker == TRUE

\* wrapper (lines 230-233): `with breaker:` takes no lock, and __enter__ and
\* __exit__ contain no await, so each runs as one step of the event loop and
\* nothing is held while `await func(...)` is suspended
call_in_critical_section == FALSE

\* faulty variant: every error counts as a failure
IsFailureAnyError(exc) == exc # NoExc

\* `if exc_type and issubclass(exc_type, self.expected_exception)`
is_failure(exc) == exc # NoExc /\ issubclass(exc, expected_exception)

\* faulty variant: a rejected call is counted in total_calls
EnterCountsRejected(c) ==
    /\ cb_call[c].pc = "idle"
    /\ invoked < MaxCalls
    /\ IF state = OPEN /\ ~_should_attempt_reset
       THEN /\ cb_ev' = Event("enter", c, NoExc, "CircuitBreakerError", "none")
            /\ total_calls' = total_calls + 1
            /\ UNCHANGED <<state, cb_call, invoked>>
       ELSE /\ state' = IF state = OPEN THEN HALF_OPEN ELSE state
            /\ cb_call' = [cb_call EXCEPT ![c] =
                              [pc |-> "running", entry_state |-> state]]
            /\ invoked' = invoked + 1
            /\ cb_ev' = Event("enter", c, NoExc, NoExc, "none")
            /\ UNCHANGED total_calls
    /\ UNCHANGED <<failure_count, last_failure_time, total_failures,
                   total_successes, failure_threshold, recovery_timeout,
                   expected_exception, consecutive, clock>>
    /\ UNCHANGED nonCB

\* `with breaker:` entry; an admitted caller goes on to start the protected
\* operation (wrapper, lines 196-197 and 232-233)
__enter__(c) ==
    /\ cb_call[c].pc = "idle"
    /\ invoked < MaxCalls
    /\ call_in_critical_section => InFlight = 0
    /\ IF state = OPEN /\ ~_should_attempt_reset
       THEN \* raise CircuitBreakerError
            /\ cb_ev' = Event("enter", c, NoExc, "CircuitBreakerError", "none")
            /\ UNCHANGED <<state, cb_call, invoked>>
       ELSE /\ state' = IF state = OPEN THEN HALF_OPEN ELSE state
            /\ cb_call' = [cb_call EXCEPT ![c] =
                              [pc |-> "running", entry_state |-> state]]
            /\ invoked' = invoked + 1
            /\ cb_ev' = Event("enter", c, NoExc, NoExc, "none")
    /\ UNCHANGED <<failure_count, last_failure_time, total_calls, total_failures,
                   total_successes, failure_threshold, recovery_timeout,
                   expected_exception, consecutive, clock>>
    /\ UNCHANGED nonCB

\* the protected operation ends (normally when exc = NoExc) and the `with`
\* block exits; __exit__ returns False, so exc is re-raised to the caller
__exit__(c, exc) ==
    /\ cb_call[c].pc = "running"
    /\ total_calls' = total_calls + 1
    /\ IF is_failure(exc)
       THEN /\ _on_failure
            /\ consecutive' = consecutive + 1
            /\ cb_ev' = Event("exit", c, exc, IF suppresses THEN NoExc ELSE exc,
                                "failure")
       ELSE /\ _on_success
            /\ consecutive' = 0
            /\ cb_ev' = Event("exit", c, exc, IF suppresses THEN NoExc ELSE exc,
                                "success")
    /\ cb_call' = [cb_call EXCEPT ![c] = IdleCall]
    /\ UNCHANGED <<failure_threshold, recovery_timeout, expected_exception,
                   invoked, clock>>
    /\ UNCHANGED nonCB

\* the attributes of a CircuitBreaker object that its operations change
Attributes(st, fc, lft, calls, failures, successes) ==
    [state |-> st, failure_count |-> fc, last_failure_time |-> lft,
     total_calls |-> calls, total_failures |-> failures,
     total_successes |-> successes]

\* faulty variant: reset() also clears the cumulative counters
ResetClearsTotals(b) == Attributes(CLOSED, 0, NoTime, 0, 0, 0)

\* CircuitBreaker.reset() on a breaker with attributes b (lines 145-150)
reset_of(b) ==
    [b EXCEPT !.failure_count = 0, !.state = CLOSED, !.last_failure_time = NoTime]

reset ==
    /\ LET b == reset_of(Attributes(state, failure_count, last_failure_time,
                                    total_calls, total_failures, total_successes))
       IN  /\ failure_count' = b.failure_count
           /\ state' = b.state
           /\ last_failure_time' = b.last_failure_time
           /\ total_calls' = b.total_calls
           /\ total_failures' = b.total_failures
           /\ total_successes' = b.total_successes
    /\ consecutive' = 0
    /\ cb_ev' = Event("reset", "none", NoExc, NoExc, "none")
    /\ UNCHANGED <<failure_threshold, recovery_timeout, expected_exception,
                   cb_call, invoked, clock>>
    /\ UNCHANGED nonCB

\* time passes
Tick ==
    /\ clock < MaxTime
    /\ clock' = clock + 1
    /\ UNCHANGED <<cbVars, rlVars, retryVars, cacheVars, apiVars, extraVars>>

InitCBState ==
    /\ failure_count = 0
    /\ last_failure_time = NoTime
    /\ state = CLOSED
    /\ total_calls = 0
    /\ total_failures = 0
    /\ total_successes = 0
    /\ failure_threshold \in 1..MaxThreshold
    /\ recovery_timeout \in RecoveryTimeouts
    /\ expected_exception \in {"Exception", "ValueError"}
    /\ cb_call = [c \in Callers |-> IdleCall]
    /\ invoked = 0
    /\ consecutive = 0
    /\ cb_ev = [op |-> "init", caller |-> "none", ended |-> NoExc,
                pre_state |-> CLOSED, pre_fc |-> 0,
                pre_lft |-> NoTime, pre_invoked |-> 0, pre_probes |-> 0,
                pre_running |-> 0, pre_failures |-> 0,
                pre_calls |-> 0, pre_successes |-> 0,
                at |-> 0, raised |-> NoExc, recorded |-> "none"]

NextCB ==
    \/ \E c \in Callers : __enter__(c)
    \/ \E c \in Callers : \E exc \in {NoExc} \cup Raisable : __exit__(c, exc)
    \/ reset
    \/ Tick

\* one breaker with failure_threshold=2, recovery_timeout=1 and three
\* concurrent callers
InitCBBurstState ==
    /\ failure_count = 0
    /\ last_failure_time = NoTime
    /\ state = CLOSED
    /\ total_calls = 0
    /\ total_failures = 0
    /\ total_successes = 0
    /\ failure_threshold = 2
    /\ recovery_timeout = 1
    /\ expected_exception = "Exception"
    /\ cb_call = [c \in BurstCallers |-> IdleCall]
    /\ invoked = 0
    /\ consecutive = 0
    /\ cb_ev = [op |-> "init", caller |-> "none", ended |-> NoExc,
                pre_state |-> CLOSED, pre_fc |-> 0,
                pre_lft |-> NoTime, pre_invoked |-> 0, pre_probes |-> 0,
                pre_running |-> 0, pre_failures |-> 0,
                pre_calls |-> 0, pre_successes |-> 0,
                at |-> 0, raised |-> NoExc, recorded |-> "none"]

NextCBBurst ==
    \/ \E c \in BurstCallers : __enter__(c)
    \/ \E c \in BurstCallers : \E exc \in {NoExc, "ValueError"} : __exit__(c, exc)
    \/ Tick

----------------------------------------------------------------------------
(* RateLimiter over the shared store *)

MaxChecks == 3          \* check_rate_limit calls that reach the store
MaxLimit == 2           \* largest max_requests tried
WindowSizes == {2, 3}   \* the window_seconds tried

EmptyDict == <<>>       \* user_data is None or {} : no key, falsy

NoHeader == <<>>        \* request.headers.get("X-Forwarded-For") is None

NoClient == "none"      \* request.client is None

\* one comma-separated part of a header value: its text and the blanks
\* around it
Part(text, lead, trail) == [text |-> text, lead |-> lead, trail |-> trail]

\* str.strip()
strip(part) == part.text

\* str.split(",") of a header value, which is kept as the sequence of its parts
split(header) == header

\* truthiness of a header value: None and "" are falsy
header_truthy(header) ==
    /\ header # NoHeader
    /\ ~(Len(header) = 1 /\ header[1] = Part("", FALSE, FALSE))

\* truthiness of user_data
dict_truthy(d) == DOMAIN d # {}

\* dict.get(key, default)
dict_get(d, key, default) == IF key \in DOMAIN d THEN d[key] ELSE default

\* the requests tried: one client, seen directly and through a proxy chain
\* ("10.0.0.1, 10.0.0.2")
Requests ==
    { [user_data |-> EmptyDict, forwarded |-> NoHeader, client |-> "10.0.0.1"],
      [user_data |-> EmptyDict,
       forwarded |-> <<Part("10.0.0.1", FALSE, FALSE), Part("10.0.0.2", TRUE, FALSE)>>,
       client |-> "10.0.0.9"] }

\* faulty variant: the forwarded header is looked at before the user data
GetIdentifierForwardedFirst(request, user_data) ==
    IF header_truthy(request.forwarded)
    THEN <<"ip", strip(split(request.forwarded)[1])>>
    ELSE IF dict_truthy(user_data)
         THEN <<"user", dict_get(user_data, "user_id", "unknown")>>
         ELSE <<"ip", IF request.client # NoClient THEN request.client
                      ELSE "unknown">>

_get_identifier(request, user_data) ==
    IF dict_truthy(user_data)
    THEN <<"user", dict_get(user_data, "user_id", "unknown")>>
    ELSE IF header_truthy(request.forwarded)
         THEN <<"ip", strip(split(request.forwarded)[1])>>
         ELSE <<"ip", IF request.client # NoClient THEN request.client
                      ELSE "unknown">>

Identifiers == { _get_identifier(r, r.user_data) : r \in Requests }

\* faulty variant: the pipeline is sent without MULTI/EXEC
PipelineWithoutTransaction == FALSE

\* self.redis.pipeline(): redis-py pipelines are transactional by default
\* (transaction=True), execute() runs the queued commands as one MULTI/EXEC
pipeline_transaction == TRUE

\* ---- the store's commands, on a store value S = [z |-> zsets, e |-> expires]

\* a key whose expiry time has passed no longer exists
Live(S, key) ==
    IF S.e[key] # NoTime /\ clock >= S.e[key] THEN {} ELSE S.z[key]

LiveExpiry(S, key) ==
    IF S.e[key] # NoTime /\ clock >= S.e[key] THEN NoTime ELSE S.e[key]

Put(S, key, members, expiry) ==
    [z |-> [S.z EXCEPT ![key] = members],
     e |-> [S.e EXCEPT ![key] = IF members = {} THEN NoTime ELSE expiry]]

ApplyCommand(S, c) ==
    LET live == Live(S, c.key)
        ttl  == LiveExpiry(S, c.key)
    IN  CASE c.cmd = "zremrangebyscore" ->
               LET gone == {m \in live : c.a <= m /\ m <= c.b}
               IN  [store |-> Put(S, c.key, live \ gone, ttl),
                    result |-> Cardinality(gone)]
          [] c.cmd = "zcard" ->
               [store |-> S, result |-> Cardinality(live)]
          [] c.cmd = "zadd" ->
               [store |-> Put(S, c.key, live \cup {c.a}, ttl),
                result |-> IF c.a \in live THEN 0 ELSE 1]
          [] c.cmd = "expire" ->
               IF live = {} THEN [store |-> S, result |-> 0]
               ELSE [store |-> Put(S, c.key, live, clock + c.a), result |-> 1]

\* run the first n commands of cmds in order, collecting their results
RECURSIVE RunCommands(_, _, _, _)
RunCommands(S, cmds, n, results) ==
    IF n = 0 \/ cmds = <<>> THEN [store |-> S, results |-> results, rest |-> cmds]
    ELSE LET r == ApplyCommand(S, Head(cmds))
         IN  RunCommands(r.store, Tail(cmds), n - 1, Append(results, r.result))

\* ---- check_rate_limit

IdleCheck == [pc |-> "idle", identifier |-> <<"ip", "">>, now |-> 0,
              pipe |-> <<>>, results |-> <<>>, snapshot |-> {}]

NoInfo == [limit |-> 0, remaining |-> 0, reset |-> 0, current |-> 0]

\* faulty variant: admits while the count equals the limit
AllowedInclusive(current_requests) == current_requests <= max_requests

allowed(current_requests) == current_requests < max_requests

\* faulty variant: remaining without the floor at zero
InfoWithoutFloor(current_requests, now) ==
    [limit |-> max_requests,
     remaining |-> max_requests - current_requests - 1,
     reset |-> now + window_seconds,
     current |-> current_requests]

info(current_requests, now) ==
    [limit |-> max_requests,
     remaining |-> Max(0, max_requests - current_requests - 1),
     reset |-> now + window_seconds,
     current |-> current_requests]

\* faulty variant: the disabled limiter reports as after a first request
DisabledInfoCountsRequest ==
    [limit |-> max_requests, remaining |-> max_requests - 1,
     reset |-> 0, current |-> 0]

\* line 67: what the disabled limiter returns with True
disabled_info ==
    [limit |-> max_requests, remaining |-> max_requests,
     reset |-> 0, current |-> 0]

Store == [z |-> zsets, e |-> expires]

\* lines 65-88: the disabled short-cut, or the locals and the queued pipeline.
\* reachable says whether the store answers this call: when it does not,
\* redis-py raises ConnectionError out of pipe.execute() (line 90) and
\* nothing in check_rate_limit catches it
check_rate_limit(c, request, reachable) ==
    /\ rl_call[c].pc = "idle"
    /\ IF ~enabled
       THEN /\ rl_ev' = [op |-> "check", caller |-> c, used_store |-> FALSE,
                         identifier |-> _get_identifier(request, request.user_data),
                         now |-> clock, allowed |-> TRUE,
                         info |-> disabled_info,
                         before |-> {}, after |-> {},
                         reachable |-> TRUE, raised |-> NoExc]
            /\ UNCHANGED <<rl_call>>
       ELSE /\ Len(rl_log) + Cardinality({d \in Callers : rl_call[d].pc # "idle"})
                 < MaxChecks
            /\ LET identifier   == _get_identifier(request, request.user_data)
                   key          == identifier
                   now          == clock
                   window_start == now - window_seconds
               IN  IF reachable
                   THEN /\ rl_call' = [rl_call EXCEPT ![c] =
                             [pc |-> "queued", identifier |-> identifier, now |-> now,
                              pipe |-> << [cmd |-> "zremrangebyscore", key |-> key,
                                           a |-> 0, b |-> window_start],
                                          [cmd |-> "zcard", key |-> key, a |-> 0,
                                           b |-> 0],
                                          [cmd |-> "zadd", key |-> key, a |-> now,
                                           b |-> now],
                                          [cmd |-> "expire", key |-> key,
                                           a |-> window_seconds * 2, b |-> 0] >>,
                              results |-> <<>>, snapshot |-> {}]]
                        /\ UNCHANGED rl_ev
                   ELSE /\ rl_ev' = [op |-> "check", caller |-> c,
                                     used_store |-> FALSE,
                                     identifier |-> identifier, now |-> 0,
                                     allowed |-> FALSE, info |-> NoInfo,
                                     before |-> {}, after |-> {},
                                     reachable |-> FALSE,
                                     raised |-> "ConnectionError"]
                        /\ UNCHANGED rl_call
    /\ UNCHANGED <<enabled, max_requests, window_seconds, zsets, expires, rl_log,
                   clock>>
    /\ UNCHANGED nonRL

\* lines 90-102: pipe.execute(), then the decision
execute(c) ==
    /\ rl_call[c].pc = "queued"
    /\ LET me      == rl_call[c]
           n       == IF pipeline_transaction THEN Len(me.pipe) ELSE 1
           run     == RunCommands(Store, me.pipe, n, me.results)
           snap    == IF me.results = <<>> THEN Live(Store, me.identifier)
                      ELSE me.snapshot
       IN  /\ zsets' = run.store.z
           /\ expires' = run.store.e
           /\ IF run.rest # <<>>
              THEN /\ rl_call' = [rl_call EXCEPT ![c].pipe = run.rest,
                                                 ![c].results = run.results,
                                                 ![c].snapshot = snap]
                   /\ UNCHANGED <<rl_ev, rl_log>>
              ELSE LET current_requests == run.results[2]
                   IN  /\ rl_call' = [rl_call EXCEPT ![c] = IdleCheck]
                       /\ rl_ev' = [op |-> "check", caller |-> c, used_store |-> TRUE,
                                    identifier |-> me.identifier, now |-> me.now,
                                    allowed |-> allowed(current_requests),
                                    info |-> info(current_requests, me.now),
                                    before |-> snap,
                                    after |-> Live(run.store, me.identifier),
                                    reachable |-> TRUE, raised |-> NoExc]
                       /\ rl_log' = Append(rl_log,
                                       [identifier |-> me.identifier, now |-> me.now,
                                        at |-> clock,
                                        allowed |-> allowed(current_requests)])
    /\ UNCHANGED <<enabled, max_requests, window_seconds, clock>>
    /\ UNCHANGED nonRL

InitRLState ==
    /\ enabled \in BOOLEAN
    /\ max_requests \in 1..MaxLimit
    /\ window_seconds \in WindowSizes
    \* a limiter that found the store down at start-up may have left, or other
    \* instances may have left, timestamps in the store
    /\ \E history \in {{}, {0}} :
          /\ enabled => history = {}
          /\ zsets = [k \in Identifiers |-> history]
          /\ expires = [k \in Identifiers |->
                           IF history = {} THEN NoTime ELSE 2 * window_seconds]
    /\ rl_call = [c \in Callers |-> IdleCheck]
    /\ rl_ev = [op |-> "init", caller |-> "none", used_store |-> FALSE,
                identifier |-> <<"ip", "">>, now |-> 0, allowed |-> TRUE,
                info |-> NoInfo, before |-> {}, after |-> {},
                reachable |-> TRUE, raised |-> NoExc]
    /\ rl_log = <<>>

\* the breaker alone; the limiter is idle
InitCBIdle ==
    /\ failure_count = 0
    /\ last_failure_time = NoTime
    /\ state = CLOSED
    /\ total_calls = 0
    /\ total_failures = 0
    /\ total_successes = 0
    /\ failure_threshold = 1
    /\ recovery_timeout = 1
    /\ expected_exception = "Exception"
    /\ cb_call = [c \in Callers |-> IdleCall]
    /\ invoked = 0
    /\ consecutive = 0
    /\ cb_ev = [op |-> "init", caller |-> "none", ended |-> NoExc,
                pre_state |-> CLOSED, pre_fc |-> 0,
                pre_lft |-> NoTime, pre_invoked |-> 0, pre_probes |-> 0,
                pre_running |-> 0, pre_failures |-> 0,
                pre_calls |-> 0, pre_successes |-> 0,
                at |-> 0, raised |-> NoExc, recorded |-> "none"]

InitRLIdle ==
    /\ enabled = TRUE
    /\ max_requests = 1
    /\ window_seconds = 2
    /\ zsets = [k \in Identifiers |-> {}]
    /\ expires = [k \in Identifiers |-> NoTime]
    /\ rl_call = [c \in Callers |-> IdleCheck]
    /\ rl_ev = [op |-> "init", caller |-> "none", used_store |-> FALSE,
                identifier |-> <<"ip", "">>, now |-> 0, allowed |-> TRUE,
                info |-> NoInfo, before |-> {}, after |-> {},
                reachable |-> TRUE, raised |-> NoExc]
    /\ rl_log = <<>>

----------------------------------------------------------------------------
(* RetryHandler / AsyncRetryHandler: one call of the wrapper *)

MaxAttempts == 3        \* largest max_attempts tried

base_delay == 1
exponential_base == 2

RECURSIVE Pow(_, _)
Pow(b, n) == IF n = 0 THEN 1 ELSE b * Pow(b, n - 1)

NoException == [cls |-> NoExc, attempt |-> 0]

NoResult == [kind |-> "none", cls |-> NoExc, attempt |-> 0, cause |-> NoException]

\* faulty variant: the delay is not capped at max_delay
CalculateDelayUncapped(n) ==
    LET delay == base_delay * Pow(exponential_base, n)
    IN  IF jitter THEN 0..delay ELSE {delay}

\* the delays calculate_delay(n) can return: random.uniform(0, delay) under
\* jitter, the capped exponential delay otherwise
calculate_delay(n) ==
    LET delay == Min(base_delay * Pow(exponential_base, n), max_delay)
    IN  IF jitter THEN 0..delay ELSE {delay}

\* faulty variant: the loop stops one attempt early
AttemptsLeftShort(n) == n < max_attempts - 1

\* `for attempt in range(self.max_attempts)`
in_range(n) == n < max_attempts

\* faulty variant: a bare `except Exception` instead of `except self.exceptions`
CatchesEverything(cls) == issubclass(cls, "BaseException")

\* `except self.exceptions as e`
catches(cls) == \E e \in exceptions : issubclass(cls, e)

\* faulty variant: sleeps after the last attempt too
SleepsAlways(n) == n < max_attempts

\* `if attempt < self.max_attempts - 1`
sleeps_before_retry(n) == n < max_attempts - 1

\* faulty variant: keeps the first error instead of the last
KeepFirstException(e) == IF last_exception = NoException THEN e ELSE last_exception

\* `last_exception = e`
remember(e) == e

\* the loop calls func(*args, **kwargs)
call_func ==
    /\ rt_pc = "loop"
    /\ in_range(attempt)
    /\ invocations' = invocations + 1
    /\ rt_pc' = "calling"
    /\ UNCHANGED <<max_attempts, exceptions, jitter, max_delay, script, attempt,
                   last_exception, sleeps, rt_result>>
    /\ UNCHANGED cancelled
    /\ UNCHANGED nonRetry

\* the task is not cancelled
NotCancelled == [at |-> "none", invocations |-> 0]

\* lines 72-88 / 134-150: the call made in the try block ends with out (NoExc:
\* it returns)
after_call(out) ==
    /\ LET e   == [cls |-> out, attempt |-> attempt]
       IN  IF out = NoExc
           THEN \* return func(...)
                /\ rt_result' = [kind |-> "returned", cls |-> NoExc,
                                 attempt |-> attempt, cause |-> NoException]
                /\ rt_pc' = "done"
                /\ UNCHANGED <<attempt, last_exception, sleeps>>
           ELSE IF catches(out)
           THEN /\ last_exception' = remember(e)
                /\ IF sleeps_before_retry(attempt)
                   THEN /\ \E delay \in calculate_delay(attempt) :
                               sleeps' = Append(sleeps, delay)
                        /\ rt_pc' = "sleeping"
                        /\ UNCHANGED attempt
                   ELSE /\ attempt' = attempt + 1
                        /\ rt_pc' = "loop"
                        /\ UNCHANGED sleeps
                /\ UNCHANGED rt_result
           ELSE \* not caught: leaves the wrapper as it is
                /\ rt_result' = [kind |-> "raised", cls |-> out,
                                 attempt |-> attempt, cause |-> NoException]
                /\ rt_pc' = "done"
                /\ UNCHANGED <<attempt, last_exception, sleeps>>
    /\ UNCHANGED <<max_attempts, exceptions, jitter, max_delay, script, invocations>>
    /\ UNCHANGED nonRetry

\* func returns or raises, as its script says for this call
func_ends ==
    /\ rt_pc = "calling"
    /\ after_call(script[invocations])
    /\ UNCHANGED cancelled

\* AsyncRetryHandler only: the task is cancelled while suspended in
\* `await func(*args, **kwargs)` (line 135): CancelledError is thrown into
\* func, which lets it through, and arrives in the try block
cancel_running ==
    /\ rt_pc = "calling"
    /\ cancelled = NotCancelled
    /\ cancelled' = [at |-> "calling", invocations |-> invocations]
    /\ after_call("CancelledError")

\* AsyncRetryHandler only: the task is cancelled while suspended in
\* `await asyncio.sleep(delay)` (line 146), which is in the except clause and
\* not in the try block: CancelledError leaves the wrapper
cancel_sleeping ==
    /\ rt_pc = "sleeping"
    /\ cancelled = NotCancelled
    /\ cancelled' = [at |-> "sleeping", invocations |-> invocations]
    /\ rt_result' = [kind |-> "raised", cls |-> "CancelledError",
                     attempt |-> attempt, cause |-> NoException]
    /\ rt_pc' = "done"
    /\ UNCHANGED <<max_attempts, exceptions, jitter, max_delay, script, attempt,
                   last_exception, invocations, sleeps>>
    /\ UNCHANGED nonRetry

\* time.sleep(delay) / await asyncio.sleep(delay) is over
sleep_ends ==
    /\ rt_pc = "sleeping"
    /\ attempt' = attempt + 1
    /\ rt_pc' = "loop"
    /\ UNCHANGED <<max_attempts, exceptions, jitter, max_delay, script,
                   last_exception, invocations, sleeps, rt_result>>
    /\ UNCHANGED cancelled
    /\ UNCHANGED nonRetry

\* the loop is over: raise RetryExhausted(...) from last_exception
raise_exhausted ==
    /\ rt_pc = "loop"
    /\ ~in_range(attempt)
    /\ rt_result' = [kind |-> "raised", cls |-> "RetryExhausted",
                     attempt |-> attempt, cause |-> last_exception]
    /\ rt_pc' = "done"
    /\ UNCHANGED <<max_attempts, exceptions, jitter, max_delay, script, attempt,
                   last_exception, invocations, sleeps>>
    /\ UNCHANGED cancelled
    /\ UNCHANGED nonRetry

Outcomes == {NoExc, "TimeoutError", "ValueError", "CancelledError"}

InitRetryState ==
    /\ max_attempts \in 1..MaxAttempts
    /\ exceptions \in {{"Exception"}, {"TimeoutError"}}
    /\ jitter \in BOOLEAN
    /\ max_delay \in {2, 60}
    /\ script \in [1..MaxAttempts -> Outcomes]
    /\ attempt = 0
    /\ last_exception = NoException
    /\ rt_pc = "loop"
    /\ invocations = 0
    /\ sleeps = <<>>
    /\ rt_result = NoResult
    /\ cancelled = NotCancelled

InitRetryIdle ==
    /\ max_attempts = 1
    /\ exceptions = {"Exception"}
    /\ jitter = FALSE
    /\ max_delay = 60
    /\ script = [i \in 1..MaxAttempts |-> NoExc]
    /\ attempt = 0
    /\ last_exception = NoException
    /\ rt_pc = "idle"
    /\ invocations = 0
    /\ sleeps = <<>>
    /\ rt_result = NoResult
    /\ cancelled = NotCancelled

----------------------------------------------------------------------------
(* CacheManager over the string keys of the shared store *)

MaxCacheOps == 3        \* cache operations carried out
default_ttl == 3600     \* CacheManager(default_ttl=3600)

NoTtl == 0              \* ttl=None (or 0): falsy in `ttl or self.default_ttl`

\* the ttl arguments tried
Ttls == {NoTtl, 1}

\* hashlib.sha256(data_str.encode()).hexdigest()[:16]; data_str is the text
\* itself or json.dumps(data, sort_keys=True)
sha256_16(data_str) == <<"sha256", data_str>>

_generate_key(prefix, data) == <<prefix, sha256_16(data)>>

\* TranslationCache: cache_data of get_translation / set_translation
cache_data(text, source_lang, target_lang) ==
    [text |-> text, source |-> source_lang, target |-> target_lang]

\* the texts asked for (Korean to English)
Texts == {"annyeong"}

translation_key(text) ==
    _generate_key("translation", cache_data(text, "ko", "eng_Latn"))

\* the keys tried: a translation and a transcription
CacheKeys ==
    {translation_key(t) : t \in Texts}
        \cup {_generate_key("transcription", cache_data("audio", "ko", "-"))}

\* the values cached: translations, the empty one included
Translations == {"", "hello"}

pickle_dumps(value) == <<"pickle", value>>

pickle_loads(bytes) == bytes[2]

NoBytes == <<>>         \* redis_client.get(key) returned None

NoEntry == [bytes |-> NoBytes, expiry |-> NoTime]

\* redis GET on the string keys S: an expired key no longer exists
redis_get(S, key) ==
    IF S[key] = NoEntry \/ clock >= S[key].expiry THEN NoBytes ELSE S[key].bytes

\* redis SETEX
redis_setex(S, key, ttl, bytes) ==
    [S EXCEPT ![key] = [bytes |-> bytes, expiry |-> clock + ttl]]

\* faulty variant: KEYS returns every key, whatever the pattern
RedisKeysIgnorePattern(S, pattern) ==
    {k \in DOMAIN S : redis_get(S, k) # NoBytes}

\* redis KEYS prefix:*
redis_keys(S, pattern) ==
    {k \in DOMAIN S : redis_get(S, k) # NoBytes /\ k[1] = pattern}

\* redis DEL
redis_delete(S, keys) ==
    [k \in DOMAIN S |-> IF k \in keys THEN NoEntry ELSE S[k]]

Miss == [kind |-> "miss", value |-> ""]        \* get returned None

Hit(value) == [kind |-> "hit", value |-> value]

\* faulty variant: the explicit ttl is ignored
TtlAlwaysDefault(ttl) == default_ttl

\* `ttl = ttl or self.default_ttl`
ttl_or_default(ttl) == IF ttl # NoTtl THEN ttl ELSE default_ttl

\* faulty variant: get without its try/except
GetOutcomeUnguarded(key, reachable) ==
    IF ~cache_enabled
    THEN [result |-> Miss, hits |-> hits, misses |-> misses + 1, raised |-> NoExc]
    ELSE IF ~reachable
    THEN [result |-> Miss, hits |-> hits, misses |-> misses,
          raised |-> "ConnectionError"]
    ELSE LET value == redis_get(strings, key)
         IN  IF value = NoBytes
             THEN [result |-> Miss, hits |-> hits, misses |-> misses + 1,
                   raised |-> NoExc]
             ELSE [result |-> Hit(pickle_loads(value)), hits |-> hits + 1,
                   misses |-> misses, raised |-> NoExc]

\* CacheManager.get: what it returns, the counters it leaves and what it
\* raises; reachable says whether the store answers this call
get_outcome(key, reachable) ==
    IF ~cache_enabled
    THEN [result |-> Miss, hits |-> hits, misses |-> misses + 1, raised |-> NoExc]
    ELSE IF ~reachable
    THEN \* except Exception
         [result |-> Miss, hits |-> hits, misses |-> misses + 1, raised |-> NoExc]
    ELSE LET value == redis_get(strings, key)
         IN  IF value = NoBytes
             THEN [result |-> Miss, hits |-> hits, misses |-> misses + 1,
                   raised |-> NoExc]
             ELSE [result |-> Hit(pickle_loads(value)), hits |-> hits + 1,
                   misses |-> misses, raised |-> NoExc]

\* faulty variant: sets counts the attempts the store did not answer
SetOutcomeCountsAttempts(key, value, ttl, reachable) ==
    IF ~cache_enabled
    THEN [strings |-> strings, sets |-> sets, raised |-> NoExc]
    ELSE IF ~reachable
    THEN [strings |-> strings, sets |-> sets + 1, raised |-> NoExc]
    ELSE [strings |-> redis_setex(strings, key, ttl_or_default(ttl),
                                  pickle_dumps(value)),
          sets |-> sets + 1, raised |-> NoExc]

\* CacheManager.set: the string keys and the counter it leaves
set_outcome(key, value, ttl, reachable) ==
    IF ~cache_enabled
    THEN [strings |-> strings, sets |-> sets, raised |-> NoExc]
    ELSE IF ~reachable
    THEN \* except Exception
         [strings |-> strings, sets |-> sets, raised |-> NoExc]
    ELSE [strings |-> redis_setex(strings, key, ttl_or_default(ttl),
                                  pickle_dumps(value)),
          sets |-> sets + 1, raised |-> NoExc]

NoKey == <<"none", <<"sha256", cache_data("", "", "")>>>>

\* last_set[key]: the last set() of key, when the cache carried it out and
\* the key was not deleted or cleared since
NoSet == [valid |-> FALSE, value |-> "", ttl |-> NoTtl, at |-> 0]

CacheEvent(op, key, reachable, result, raised, S) ==
    [n |-> cache_ev.n + 1, op |-> op, key |-> key, reachable |-> reachable,
     at |-> clock, result |-> result, raised |-> raised,
     pre_hits |-> hits, pre_misses |-> misses, pre_sets |-> sets,
     store_changed |-> S # strings,
     gets |-> cache_ev.gets + (IF op = "get" THEN 1 ELSE 0),
     pre_set |-> IF key \in CacheKeys THEN last_set[key] ELSE NoSet]

\* the set() call now made for key
SetCalled(key, value, ttl, reachable) ==
    [last_set EXCEPT ![key] =
        IF cache_enabled /\ reachable
        THEN [valid |-> TRUE, value |-> value, ttl |-> ttl, at |-> clock]
        ELSE NoSet]

\* the keys in gone were removed from the store
Removed(gone) ==
    [k \in CacheKeys |-> IF k \in gone THEN NoSet ELSE last_set[k]]

get(key, reachable) ==
    /\ cache_ev.n < MaxCacheOps
    /\ LET out == get_outcome(key, reachable)
       IN  /\ hits' = out.hits
           /\ misses' = out.misses
           /\ cache_ev' = CacheEvent("get", key, reachable, out.result, out.raised,
                                  strings)
    /\ UNCHANGED <<cache_enabled, sets, strings, last_set, clock>>
    /\ UNCHANGED <<cbVars, rlVars, retryVars, apiVars, extraVars>>

set(key, value, ttl, reachable) ==
    /\ cache_ev.n < MaxCacheOps
    /\ LET out == set_outcome(key, value, ttl, reachable)
       IN  /\ strings' = out.strings
           /\ sets' = out.sets
           /\ cache_ev' = CacheEvent("set", key, reachable, Miss, out.raised,
                                  out.strings)
    /\ last_set' = SetCalled(key, value, ttl, reachable)
    /\ UNCHANGED <<cache_enabled, hits, misses, clock>>
    /\ UNCHANGED <<cbVars, rlVars, retryVars, apiVars, extraVars>>

delete(key, reachable) ==
    /\ cache_ev.n < MaxCacheOps
    /\ IF cache_enabled /\ reachable
       THEN /\ strings' = redis_delete(strings, {key})
            /\ last_set' = Removed({key})
       ELSE UNCHANGED <<strings, last_set>>
    /\ cache_ev' = CacheEvent("delete", key, reachable, Miss, NoExc, strings')
    /\ UNCHANGED <<cache_enabled, hits, misses, sets, clock>>
    /\ UNCHANGED <<cbVars, rlVars, retryVars, apiVars, extraVars>>

\* keys(pattern), then delete(*keys) when there are any
clear_pattern(pattern, reachable) ==
    /\ cache_ev.n < MaxCacheOps
    /\ IF cache_enabled /\ reachable
       THEN LET keys == redis_keys(strings, pattern)
            IN  /\ strings' = IF keys # {} THEN redis_delete(strings, keys)
                              ELSE strings
                /\ last_set' = Removed(keys)
       ELSE UNCHANGED <<strings, last_set>>
    /\ cache_ev' = CacheEvent("clear_pattern", <<pattern, NoKey[2]>>, reachable,
                              Miss, NoExc,
                              strings')
    /\ UNCHANGED <<cache_enabled, hits, misses, sets, clock>>
    /\ UNCHANGED <<cbVars, rlVars, retryVars, apiVars, extraVars>>

\* flushdb empties the whole database, the limiter's keys included
clear_all(reachable) ==
    /\ cache_ev.n < MaxCacheOps
    /\ IF cache_enabled /\ reachable
       THEN /\ strings' = [k \in CacheKeys |-> NoEntry]
            /\ last_set' = Removed(CacheKeys)
            /\ zsets' = [k \in DOMAIN zsets |-> {}]
            /\ expires' = [k \in DOMAIN expires |-> NoTime]
       ELSE UNCHANGED <<strings, last_set, zsets, expires>>
    /\ cache_ev' = CacheEvent("clear_all", NoKey, reachable, Miss, NoExc,
                              strings')
    /\ UNCHANGED <<cache_enabled, hits, misses, sets, clock>>
    /\ UNCHANGED <<enabled, max_requests, window_seconds, rl_call, rl_ev, rl_log>>
    /\ UNCHANGED <<cbVars, retryVars, apiVars, extraVars>>

NoCacheEvent ==
    [n |-> 0, op |-> "init", key |-> NoKey, reachable |-> TRUE, at |-> 0,
     result |-> Miss, raised |-> NoExc, pre_hits |-> 0, pre_misses |-> 0,
     pre_sets |-> 0, store_changed |-> FALSE, gets |-> 0, pre_set |-> NoSet]

InitCacheState ==
    /\ cache_enabled \in BOOLEAN
    /\ hits = 0
    /\ misses = 0
    /\ sets = 0
    /\ strings = [k \in CacheKeys |-> NoEntry]
    /\ cache_ev = NoCacheEvent
    /\ last_set = [k \in CacheKeys |-> NoSet]

InitCacheIdle ==
    /\ cache_enabled = TRUE
    /\ hits = 0
    /\ misses = 0
    /\ sets = 0
    /\ strings = [k \in CacheKeys |-> NoEntry]
    /\ cache_ev = NoCacheEvent
    /\ last_set = [k \in CacheKeys |-> NoSet]

NextCache ==
    \/ \E k \in CacheKeys : \E up \in BOOLEAN : get(k, up)
    \/ \E k \in CacheKeys : \E v \in Translations :
          \E ttl \in Ttls : \E up \in BOOLEAN : set(k, v, ttl, up)
    \/ \E k \in CacheKeys : \E up \in BOOLEAN : delete(k, up)
    \/ \E p \in {"translation", "transcription"} : \E up \in BOOLEAN :
          clear_pattern(p, up)
    \/ \E up \in BOOLEAN : clear_all(up)
    \/ Tick

----------------------------------------------------------------------------
(* RateLimiter._get_identifier on its own *)

\* user_data: None / {}, a user with an id, a user record without user_id
UserDatas ==
    {EmptyDict, [user_id |-> "u1", tier |-> "free"],
     [user_id |-> "u2", tier |-> "pro"], [tier |-> "pro"]}

\* X-Forwarded-For: absent, "", "10.0.0.1", "10.0.0.1, 10.0.0.2",
\* " 10.0.0.3 ,10.0.0.2", ",10.0.0.2"
ForwardedHeaders ==
    {NoHeader,
     <<Part("", FALSE, FALSE)>>,
     <<Part("10.0.0.1", FALSE, FALSE)>>,
     <<Part("10.0.0.1", FALSE, FALSE), Part("10.0.0.2", TRUE, FALSE)>>,
     <<Part("10.0.0.3", TRUE, TRUE), Part("10.0.0.2", FALSE, FALSE)>>,
     <<Part("", FALSE, FALSE), Part("10.0.0.2", FALSE, FALSE)>>}

\* request.client: None or the socket's peer
Clients == {NoClient, "127.0.0.1", "10.0.0.1"}

IdentRequests ==
    [user_data : UserDatas, forwarded : ForwardedHeaders, client : Clients]

NoIdentifier == <<"none", "">>

\* limiter._get_identifier(request, user_data)
get_identifier_called(request) ==
    /\ id_request' = request
    /\ id_result' = _get_identifier(request, request.user_data)
    /\ UNCHANGED <<cbVars, rlVars, retryVars, cacheVars, apiVars, loadVars,
                   registryVars, auxVars, clock>>

InitIdentState ==
    /\ id_request \in IdentRequests
    /\ id_result = NoIdentifier

InitIdentIdle ==
    /\ id_request = [user_data |-> EmptyDict, forwarded |-> NoHeader,
                     client |-> NoClient]
    /\ id_result = NoIdentifier

NextIdent == \E request \in IdentRequests : get_identifier_called(request)

----------------------------------------------------------------------------
(* calculate_delay on its own *)

MaxDelayCalls == 5      \* attempts 0 .. MaxDelayCalls - 1

\* max_delay below, at and above the uncapped delays 1, 2, 4, 8, 16
MaxDelays == {1, 3, 8, 60}

\* calculate_delay(attempt) for the next attempt number returns
delay_calculated ==
    /\ Len(delays) < MaxDelayCalls
    /\ \E d \in calculate_delay(Len(delays)) : delays' = Append(delays, d)
    /\ UNCHANGED <<cbVars, rlVars, retryVars, cacheVars, apiVars, loadVars,
                   identVars, registryVars, keyVars, statsVars, wrapVars, clock>>

InitDelayIdle == delays = <<>>

----------------------------------------------------------------------------
(* CacheManager._generate_key on its own *)

MaxKeyCalls == 3        \* calls of _generate_key recorded

\* the prefixes of TranslationCache and TranscriptionCache, and the tests' one
Prefixes == {"translation", "transcription", "prefix"}

\* data passed in: the dicts the two caches build
Datas ==
    {cache_data("annyeong", "ko", "eng_Latn"), cache_data("audio", "ko", "-")}

\* a str as the sequence of its characters
Str(str) ==
    CASE str = "translation" ->
             <<"t", "r", "a", "n", "s", "l", "a", "t", "i", "o", "n">>
      [] str = "transcription" ->
             <<"t", "r", "a", "n", "s", "c", "r", "i", "p", "t", "i", "o", "n">>
      [] str = "prefix" -> <<"p", "r", "e", "f", "i", "x">>

\* 16 hexadecimal digits; which ones a digest has is not computed here
HexDigests == {[i \in 1..16 |-> "0"], [i \in 1..16 |-> IF i = 1 THEN "c" ELSE "f"]}

\* faulty variant: the key is the digest alone
KeyWithoutPrefix(key) == kg_digest[key[2][2]]

\* f"{prefix}:{hash_hex}" for the key <<prefix, sha256_16(data)>>
key_string(key) == Str(key[1]) \o <<":">> \o kg_digest[key[2][2]]

\* _generate_key(prefix, data) is called and returns
generate_key_called(prefix, data) ==
    /\ Cardinality(kg_log) < MaxKeyCalls
    /\ kg_log' = kg_log \cup
                    {[prefix |-> prefix, data |-> data,
                      key |-> key_string(_generate_key(prefix, data)),
                      cache_used |-> cache_ev.n > 0]}
    /\ kg_log' # kg_log
    /\ UNCHANGED kg_digest
    /\ UNCHANGED <<cbVars, rlVars, retryVars, cacheVars, apiVars, loadVars,
                   identVars, registryVars, delayVars, statsVars, wrapVars, clock>>

InitKeyState ==
    /\ kg_digest \in [Datas -> HexDigests]
    /\ kg_log = {}

InitKeyIdle ==
    /\ kg_digest = [d \in Datas |-> [i \in 1..16 |-> "0"]]
    /\ kg_log = {}

\* keys are generated while the cache is used
NextKey ==
    \/ \E p \in Prefixes : \E d \in Datas : generate_key_called(p, d)
    \/ \E k \in CacheKeys : get(k, TRUE)
    \/ \E k \in CacheKeys : set(k, "hello", NoTtl, TRUE)

----------------------------------------------------------------------------
(* CacheManager.get_stats *)

\* counter values a long-running cache can show
StatCounts == {0, 1, 2, 20, 31, 80}

\* faulty variant: the share of misses
MissRate(h, m) ==
    IF h + m > 0 THEN {((m * 10000) \div (h + m))} ELSE {0}

\* 'hit_rate': round(hit_rate, 2) with hit_rate = hits / total * 100 or 0, in
\* hundredths of a percent.  round() gives the nearest hundredth; when the
\* quotient lies exactly between two hundredths the float's last bit decides,
\* so either neighbour can come out
hit_rate(h, m) ==
    IF h + m > 0
    THEN LET total == h + m
             q     == (h * 10000) \div total
             r     == (h * 10000) % total
         IN  IF 2 * r < total THEN {q}
             ELSE IF 2 * r > total THEN {q + 1}
             ELSE {q, q + 1}
    ELSE {0}

NoStats == [n |-> 0, enabled |-> TRUE, hits |-> 0, misses |-> 0, sets |-> 0, hit_rate |-> 0]

get_stats ==
    /\ st_ev.n < MaxCacheOps
    /\ \E rate \in hit_rate(hits, misses) :
          st_ev' = [n |-> st_ev.n + 1, enabled |-> cache_enabled, hits |-> hits,
                    misses |-> misses, sets |-> sets, hit_rate |-> rate]
    /\ UNCHANGED <<cbVars, rlVars, retryVars, cacheVars, apiVars, loadVars,
                   identVars, registryVars, delayVars, keyVars, wrapVars, clock>>

InitStatsIdle == st_ev = NoStats

\* a cache that has been running: its counters stand anywhere
InitStatsState ==
    /\ cache_enabled \in BOOLEAN
    /\ hits \in StatCounts
    /\ misses \in StatCounts
    /\ sets = 0
    /\ strings = [k \in CacheKeys |-> NoEntry]
    /\ cache_ev = NoCacheEvent
    /\ last_set = [k \in CacheKeys |-> NoSet]
    /\ st_ev = NoStats

NextStats ==
    \/ get_stats
    \/ \E k \in CacheKeys : \E up \in BOOLEAN : get(k, up)
    \/ \E k \in CacheKeys : set(k, "hello", NoTtl, TRUE)

(* The breakers the decorators put around functions *)

\* @async_circuit_breaker(..., name="whisper_transcribe" / "nllb_translate")
\* (async_translator.py:153, 195) and @circuit_breaker(...,
\* name="text_translation") (rest_api_v2.py:225)
WrappedNames == {"whisper_transcribe", "nllb_translate", "text_translation"}

\* failure_threshold=5 in the three decorators
WrappedThreshold == 5

\* recovery_timeout=60 in the three decorators; the clock of these
\* specifications counts half minutes
WrappedRecovery == 2

FreshBreaker == Attributes(CLOSED, 0, NoTime, 0, 0, 0)

\* _should_attempt_reset (lines 98-104) of a breaker with attributes b
due_for_reset(b) ==
    IF b.last_failure_time = NoTime THEN TRUE
    ELSE (clock - b.last_failure_time) >= WrappedRecovery

\* __enter__ (lines 71-83) raises CircuitBreakerError
rejects(b) == b.state = OPEN /\ ~due_for_reset(b)

\* __enter__ returns: the attributes it leaves
entered(b) ==
    IF b.state = OPEN /\ due_for_reset(b) THEN [b EXCEPT !.state = HALF_OPEN]
    ELSE b

\* _on_failure (lines 106-127)
failure_of(b) ==
    LET n == b.failure_count + 1
    IN  [b EXCEPT !.failure_count = n,
                  !.total_failures = @ + 1,
                  !.last_failure_time = clock,
                  !.state = IF b.state = HALF_OPEN THEN OPEN
                            ELSE IF n >= WrappedThreshold THEN OPEN
                            ELSE @]

\* _on_success (lines 129-141)
success_of(b) ==
    LET fc == IF b.state = HALF_OPEN THEN 0 ELSE b.failure_count
    IN  [b EXCEPT !.total_successes = @ + 1,
                  !.state = IF b.state = HALF_OPEN THEN CLOSED ELSE @,
                  !.failure_count = IF fc > 0 THEN Max(0, fc - 1) ELSE fc]

\* __exit__ (lines 85-96) when the with block ended with exc (NoExc: it
\* was left normally); expected_exception is the default, Exception
exited(b, exc) ==
    LET counted == [b EXCEPT !.total_calls = @ + 1]
    IN  IF exc # NoExc /\ issubclass(exc, "Exception")
        THEN failure_of(counted)
        ELSE success_of(counted)

----------------------------------------------------------------------------
(* AsyncRealtimeTranslator.process_audio *)

MaxAudioCalls == 3

\* what transcribe_audio / translate_text may raise from inside the breaker:
\* the retried load_models gives up, the model fails, the task is cancelled
AudioRaisable == {"RetryExhausted", "ValueError", "CancelledError"}

\* what Whisper may return: nothing (silence) or a sentence
Transcripts == {"", "annyeong"}

NoText == "(none)"

IdleAudio == [pc |-> "idle", original |-> NoText]

NoAudioEvent ==
    [n |-> 0, caller |-> "none", transcribe |-> "none", original |-> NoText,
     translate_open |-> FALSE, translate |-> "none",
     returned |-> <<NoText, NoText>>, raised |-> NoExc, failed_added |-> 0]

AudioEvent(c, transcribe, original, translate_open, translate, returned, raised, added) ==
    [n |-> pa_ev.n + 1, caller |-> c, transcribe |-> transcribe,
     original |-> original, translate_open |-> translate_open,
     translate |-> translate, returned |-> returned, raised |-> raised,
     failed_added |-> added]

InProgress == {c \in Callers : pa_call[c].pc # "idle"}

\* faulty variant: the outer handlers count again what the inner ones counted
\* and raised
FailedCountedTwice(exc, reraised) ==
    IF exc \in {"CircuitBreakerError", "RetryExhausted"}
    THEN IF reraised THEN 2 ELSE 1
    ELSE IF issubclass(exc, "Exception") THEN 1
    ELSE 0

\* what the except clauses add to failed_requests when a stage raises exc:
\* the inner clauses (285-292, 300-307) count CircuitBreakerError and
\* RetryExhausted, and when they raise again the outer clause of line 311
\* passes the exception on; the clause of line 313 counts any other
\* Exception; a BaseException reaches the finally clause only
failed_on(exc, reraised) ==
    IF exc \in {"CircuitBreakerError", "RetryExhausted"} THEN 1
    ELSE IF issubclass(exc, "Exception") THEN 1
    ELSE 0

\* process_audio from its first line to the first await of transcribe_audio:
\* the counters (274-279) and __enter__ of "whisper_transcribe"
process_audio_called(c) ==
    /\ pa_call[c].pc = "idle"
    /\ total_requests < MaxAudioCalls
    /\ total_requests' = total_requests + 1
    /\ max_concurrent_requests' = Max(max_concurrent_requests, active_requests + 1)
    /\ LET b == wrapped["whisper_transcribe"]
       IN  IF rejects(b)
           THEN \* lines 285-288, 311-312, 317-318
                /\ failed_requests' =
                       failed_requests + failed_on("CircuitBreakerError", TRUE)
                /\ active_requests' = (active_requests + 1) - 1
                /\ pa_ev' = AudioEvent(c, "rejected", NoText, FALSE, "none",
                                       <<NoText, NoText>>, "CircuitBreakerError",
                                       failed_on("CircuitBreakerError", TRUE))
                /\ UNCHANGED <<wrapped, pa_call>>
           ELSE /\ wrapped' = [wrapped EXCEPT !["whisper_transcribe"] = entered(b)]
                /\ active_requests' = active_requests + 1
                /\ pa_call' = [pa_call EXCEPT ![c] = [pc |-> "transcribing",
                                                      original |-> NoText]]
                /\ UNCHANGED <<failed_requests, pa_ev>>
    /\ UNCHANGED v2Vars
    /\ UNCHANGED <<cbVars, rlVars, retryVars, cacheVars, apiVars, loadVars,
                   identVars, registryVars, delayVars, keyVars, statsVars, clock>>

\* transcribe_audio ends with out (a text, or an exception): __exit__ of its
\* breaker, then lines 283-307 up to the first await of translate_text
transcribe_ends(c, out) ==
    /\ pa_call[c].pc = "transcribing"
    /\ LET exc  == IF out \in AudioRaisable THEN out ELSE NoExc
           w    == [wrapped EXCEPT !["whisper_transcribe"] = exited(@, exc)]
           bt   == w["nllb_translate"]
           open == rejects(bt)
       IN  IF exc # NoExc
           THEN \* lines 289-292 or 313-316, then 317-318
                /\ wrapped' = w
                /\ failed_requests' = failed_requests + failed_on(exc, TRUE)
                /\ active_requests' = active_requests - 1
                /\ pa_call' = [pa_call EXCEPT ![c] = IdleAudio]
                /\ pa_ev' = AudioEvent(c, "raised", NoText, open, "none",
                                       <<NoText, NoText>>, exc,
                                       failed_on(exc, TRUE))
           ELSE IF out = ""
           THEN \* lines 294-295: return "", ""
                /\ wrapped' = w
                /\ active_requests' = active_requests - 1
                /\ pa_call' = [pa_call EXCEPT ![c] = IdleAudio]
                /\ pa_ev' = AudioEvent(c, "empty", out, open, "none",
                                       <<"", "">>, NoExc, 0)
                /\ UNCHANGED failed_requests
           ELSE IF open
           THEN \* lines 300-303: return original, ""
                /\ wrapped' = w
                /\ failed_requests' =
                       failed_requests + failed_on("CircuitBreakerError", FALSE)
                /\ active_requests' = active_requests - 1
                /\ pa_call' = [pa_call EXCEPT ![c] = IdleAudio]
                /\ pa_ev' = AudioEvent(c, "text", out, open, "rejected",
                                       <<out, "">>, NoExc,
                                       failed_on("CircuitBreakerError", FALSE))
           ELSE /\ wrapped' = [w EXCEPT !["nllb_translate"] = entered(bt)]
                /\ pa_call' = [pa_call EXCEPT ![c] = [pc |-> "translating",
                                                      original |-> out]]
                /\ UNCHANGED <<failed_requests, active_requests, pa_ev>>
    /\ UNCHANGED <<total_requests, max_concurrent_requests, v2Vars>>
    /\ UNCHANGED <<cbVars, rlVars, retryVars, cacheVars, apiVars, loadVars,
                   identVars, registryVars, delayVars, keyVars, statsVars, clock>>

\* translate_text ends with out: __exit__ of its breaker, then lines 304-318
translate_ends(c, out) ==
    /\ pa_call[c].pc = "translating"
    /\ LET exc      == IF out \in AudioRaisable THEN out ELSE NoExc
           original == pa_call[c].original
           handled  == exc = "RetryExhausted"
           added    == IF exc = NoExc THEN 0 ELSE failed_on(exc, ~handled)
       IN  /\ wrapped' = [wrapped EXCEPT !["nllb_translate"] = exited(@, exc)]
           /\ failed_requests' = failed_requests + added
           /\ pa_ev' = IF exc = NoExc
                       THEN AudioEvent(c, "text", original, FALSE, "returned",
                                       <<original, out>>, NoExc, added)
                       ELSE IF handled
                       THEN AudioEvent(c, "text", original, FALSE, "exhausted",
                                       <<original, "">>, NoExc, added)
                       ELSE AudioEvent(c, "text", original, FALSE, "raised",
                                       <<NoText, NoText>>, exc, added)
    /\ active_requests' = active_requests - 1
    /\ pa_call' = [pa_call EXCEPT ![c] = IdleAudio]
    /\ UNCHANGED <<total_requests, max_concurrent_requests, v2Vars>>
    /\ UNCHANGED <<cbVars, rlVars, retryVars, cacheVars, apiVars, loadVars,
                   identVars, registryVars, delayVars, keyVars, statsVars, clock>>

\* attributes a breaker of threshold 5 has after earlier calls: none yet;
\* four failures in a row; five, which opened it
EarlierAttributes ==
    {FreshBreaker,
     Attributes(CLOSED, 4, 0, 4, 4, 0),
     Attributes(OPEN, 5, 0, 5, 5, 0)}

InitAudioIdle ==
    /\ active_requests = 0
    /\ total_requests = 0
    /\ failed_requests = 0
    /\ max_concurrent_requests = 0
    /\ pa_call = [c \in Callers |-> IdleAudio]
    /\ pa_ev = NoAudioEvent

NextAudio ==
    \/ \E c \in Callers : process_audio_called(c)
    \/ \E c \in Callers : \E out \in Transcripts \cup AudioRaisable :
           transcribe_ends(c, out)
    \/ \E c \in Callers : \E out \in Translations \cup AudioRaisable :
           translate_ends(c, out)
    \/ Tick

----------------------------------------------------------------------------
(* POST /translate/text of rest_api_v2.py *)

MaxV2Requests == 6

\* how the coroutine translate_text_endpoint(...) ends once the framework
\* has it: a response (lines 267-274, 297-304), an HTTPException (429 of
\* line 254, 503 of line 308, 500 of line 312), or it is never awaited
\* (the wrapper is a plain function, and what the framework does with the
\* coroutine object it returns is the framework's choice)
V2Outcomes == {"response", "HTTPException", "never awaited"}

NoV2Event == [n |-> 0, last |-> "none", failing_run |-> 0, handler_ran |-> FALSE]

\* a request reaches the decorated endpoint: wrapper(*args, **kwargs) of
\* circuit_breaker (circuit_breaker.py:195-198) around the async def of
\* rest_api_v2.py:226.  func(*args, **kwargs) makes the coroutine object and
\* returns it, so the with block is left normally before any line of the
\* endpoint has run
v2_request(c) ==
    /\ v2_call[c] = "idle"
    /\ v2_ev.n < MaxV2Requests
    /\ LET b == wrapped["text_translation"]
       IN  IF rejects(b)
           THEN /\ v2_ev' = [v2_ev EXCEPT !.n = @ + 1, !.last = "rejected",
                                          !.handler_ran = FALSE]
                /\ UNCHANGED <<wrapped, v2_call>>
           ELSE /\ wrapped' = [wrapped EXCEPT !["text_translation"] =
                                                  exited(entered(b), NoExc)]
                /\ v2_call' = [v2_call EXCEPT ![c] = "created"]
                /\ v2_ev' = [v2_ev EXCEPT !.n = @ + 1]
    /\ UNCHANGED audioVars
    /\ UNCHANGED <<cbVars, rlVars, retryVars, cacheVars, apiVars, loadVars,
                   identVars, registryVars, delayVars, keyVars, statsVars, clock>>

\* the coroutine of request c ends with out, outside the with block
v2_handler_ends(c, out) ==
    /\ v2_call[c] = "created"
    /\ v2_call' = [v2_call EXCEPT ![c] = "idle"]
    /\ v2_ev' = [v2_ev EXCEPT
                    !.last = out,
                    !.handler_ran = out # "never awaited",
                    !.failing_run = IF out = "response" THEN 0 ELSE @ + 1]
    /\ UNCHANGED <<wrapped, audioVars>>
    /\ UNCHANGED <<cbVars, rlVars, retryVars, cacheVars, apiVars, loadVars,
                   identVars, registryVars, delayVars, keyVars, statsVars, clock>>

NextV2 ==
    \/ \E c \in Callers : v2_request(c)
    \/ \E c \in Callers : \E out \in V2Outcomes : v2_handler_ends(c, out)
    \/ Tick

InitV2Idle ==
    /\ v2_call = [c \in Callers |-> "idle"]
    /\ v2_ev = NoV2Event

InitWrapIdle ==
    /\ wrapped = [n \in WrappedNames |-> FreshBreaker]
    /\ InitAudioIdle
    /\ InitV2Idle

InitAuxIdle == InitDelayIdle /\ InitKeyIdle /\ InitStatsIdle /\ InitWrapIdle

NextDelay == delay_calculated

----------------------------------------------------------------------------
(* The breakers of the process and CircuitBreakerRegistry *)

\* the breakers the decorators make at import (async_translator.py:153, 195)
DecoratedNames == {"whisper_transcribe", "nllb_translate"}

\* breakers made with CircuitBreaker(name=...) and handed to
\* registry.register (tests/unit/test_circuit_breaker.py:163-166)
RegisteredNames == {"test_reset_all_1_v2", "test_reset_all_2_v2"}

BreakerNames == DecoratedNames \cup RegisteredNames

NoBreaker == [origin |-> "none", attrs |-> Attributes(CLOSED, 0, NoTime, 0, 0, 0)]

\* CircuitBreaker.__init__ (lines 54-69)
new_breaker(origin) ==
    [origin |-> origin, attrs |-> Attributes(CLOSED, 0, NoTime, 0, 0, 0)]

\* attributes the calls through a breaker leave it with (failure_threshold 2):
\* one failure; opened by two failures; half-open after the timeout; closed
\* again by a successful probe
UsedAttributes ==
    {Attributes(CLOSED, 1, 0, 1, 1, 0),
     Attributes(OPEN, 2, 1, 2, 2, 0),
     Attributes(HALF_OPEN, 2, 1, 2, 2, 0),
     Attributes(CLOSED, 0, 1, 3, 2, 1)}

RegistryEvent(op, name, status, listed) ==
    [op |-> op, name |-> name, status |-> status, listed |-> listed,
     pre |-> made, pre_breakers |-> breakers]

\* @circuit_breaker(name=...) / @async_circuit_breaker(name=...) applied to a
\* function (lines 186-201, 222-237): the breaker is made with its name
decorator(name) ==
    /\ name \in DecoratedNames
    /\ made[name] = NoBreaker
    /\ made' = [made EXCEPT ![name] = new_breaker("decorator")]
    \* attached to the wrapper only; registry.register is not called
    /\ UNCHANGED breakers
    /\ reg_ev' = RegistryEvent("decorator", name, 0, {})
    /\ UNCHANGED <<cbVars, rlVars, retryVars, cacheVars, apiVars, loadVars,
                   identVars, auxVars, clock>>

\* registry.register(CircuitBreaker(name=name)), lines 246-248
register(name) ==
    /\ name \in RegisteredNames
    /\ made[name] = NoBreaker
    /\ made' = [made EXCEPT ![name] = new_breaker("constructor")]
    /\ breakers' = breakers \cup {name}
    /\ reg_ev' = RegistryEvent("register", name, 0, {})
    /\ UNCHANGED <<cbVars, rlVars, retryVars, cacheVars, apiVars, loadVars,
                   identVars, auxVars, clock>>

\* calls go through breaker name and leave it with attributes attrs
breaker_used(name, attrs) ==
    /\ made[name] # NoBreaker
    /\ made[name].attrs # attrs
    /\ made' = [made EXCEPT ![name].attrs = attrs]
    /\ reg_ev' = RegistryEvent("used", name, 0, {})
    /\ UNCHANGED breakers
    /\ UNCHANGED <<cbVars, rlVars, retryVars, cacheVars, apiVars, loadVars,
                   identVars, auxVars, clock>>

\* registry.get_all_stats(), lines 254-256 (GET /metrics/json, api.py:456)
get_all_stats ==
    /\ reg_ev' = RegistryEvent("get_all_stats", "none", 200, breakers)
    /\ UNCHANGED <<made, breakers>>
    /\ UNCHANGED <<cbVars, rlVars, retryVars, cacheVars, apiVars, loadVars,
                   identVars, auxVars, clock>>

\* POST /admin/circuit-breaker/reset?name=... (api.py:833-839)
reset_circuit_breakers(name) ==
    /\ IF name \in breakers
       THEN /\ made' = [made EXCEPT ![name].attrs = reset_of(@)]
            /\ reg_ev' = RegistryEvent("reset", name, 200, {name})
       ELSE /\ reg_ev' = RegistryEvent("reset", name, 404, {})
            /\ UNCHANGED made
    /\ UNCHANGED breakers
    /\ UNCHANGED <<cbVars, rlVars, retryVars, cacheVars, apiVars, loadVars,
                   identVars, auxVars, clock>>

\* POST /admin/circuit-breaker/reset without a name: registry.reset_all(),
\* lines 258-261
reset_all ==
    /\ made' = [n \in BreakerNames |->
                   IF n \in breakers
                   THEN [made[n] EXCEPT !.attrs = reset_of(@)]
                   ELSE made[n]]
    /\ reg_ev' = RegistryEvent("reset_all", "none", 200, breakers)
    /\ UNCHANGED breakers
    /\ UNCHANGED <<cbVars, rlVars, retryVars, cacheVars, apiVars, loadVars,
                   identVars, auxVars, clock>>

InitRegistryState ==
    /\ made = [n \in BreakerNames |-> NoBreaker]
    /\ breakers = {}
    /\ reg_ev = [op |-> "init", name |-> "none", status |-> 0, listed |-> {},
                 pre |-> [n \in BreakerNames |-> NoBreaker], pre_breakers |-> {}]

NextRegistry ==
    \/ \E n \in BreakerNames : decorator(n)
    \/ \E n \in BreakerNames : register(n)
    \/ \E n \in BreakerNames : \E a \in UsedAttributes : breaker_used(n, a)
    \/ get_all_stats
    \/ \E n \in BreakerNames : reset_circuit_breakers(n)
    \/ reset_all

----------------------------------------------------------------------------
(* Lazy model loading: ensure_models_loaded over the retried load_models *)

MaxServed == 3          \* requests answered

LoadRequests == {"r1", "r2", "r3"}

Endpoints == {"translate", "health"}

\* @async_retry(max_attempts=3, base_delay=2.0,
\*              exceptions=(OSError, RuntimeError, ConnectionError))
load_max_attempts == 3
load_exceptions == {"ConnectionError"}

\* how one run of load_models' body can end
LoadOutcomes == {NoExc, "ConnectionError", "ValueError"}

NoHolder == "none"

IdleLoad == [pc |-> "idle", attempt |-> 0]

FreeLock == [holder |-> NoHolder, waiters |-> <<>>]

\* asyncio.Lock.acquire() with the lock free and nobody waiting
acquired(r) == [models_lock EXCEPT !.holder = r]

\* `async with _models_lock` exits
released == [models_lock EXCEPT !.holder = NoHolder]

\* `except self.exceptions` of the handler wrapping load_models
load_catches(cls) == \E e \in load_exceptions : issubclass(cls, e)

\* faulty variant: no second look at `translator` once the lock is held
EnsureLockedNoDoubleCheck(r, lock) ==
    IF models_loading
    THEN /\ ld_call' = [ld_call EXCEPT ![r] = [pc |-> "polling", attempt |-> 0]]
         /\ models_lock' = lock
         /\ UNCHANGED <<translator_loaded, models_loading>>
    ELSE /\ models_loading' = TRUE
         /\ ld_call' = [ld_call EXCEPT ![r] = [pc |-> "loading", attempt |-> 0]]
         /\ models_lock' = lock
         /\ UNCHANGED translator_loaded

\* ensure_models_loaded from the double-check (line 363) to the first await
\* of load_models; lock is the lock as r holds it
ensure_locked(r, lock) ==
    IF translator_loaded
    THEN \* return True; the endpoint goes on
         /\ ld_call' = [ld_call EXCEPT ![r] = [pc |-> "ready", attempt |-> 0]]
         /\ models_lock' = [lock EXCEPT !.holder = NoHolder]
         /\ UNCHANGED <<translator_loaded, models_loading>>
    ELSE IF models_loading
    THEN \* lines 367-372: wait for the request that is loading
         /\ ld_call' = [ld_call EXCEPT ![r] = [pc |-> "polling", attempt |-> 0]]
         /\ models_lock' = lock
         /\ UNCHANGED <<translator_loaded, models_loading>>
    ELSE /\ models_loading' = TRUE
         /\ ld_call' = [ld_call EXCEPT ![r] = [pc |-> "loading", attempt |-> 0]]
         /\ models_lock' = lock
         /\ UNCHANGED translator_loaded

\* a request arrives: /health/simple answers at once; /translate/text needs
\* the models (lines 578-588)
request_arrives(r, endpoint) ==
    /\ ld_call[r].pc = "idle"
    /\ ld_served < MaxServed
    /\ IF endpoint = "health"
       THEN /\ ld_served' = ld_served + 1
            /\ UNCHANGED <<translator_loaded, models_loading, models_lock, ld_call>>
       ELSE /\ UNCHANGED ld_served
            /\ IF translator_loaded
               THEN /\ ld_call' = [ld_call EXCEPT ![r] =
                                      [pc |-> "ready", attempt |-> 0]]
                    /\ UNCHANGED <<translator_loaded, models_loading, models_lock>>
               ELSE IF models_lock = FreeLock
               THEN ensure_locked(r, acquired(r))
               ELSE \* suspended in `async with _models_lock`
                    /\ ld_call' = [ld_call EXCEPT ![r] =
                                      [pc |-> "waiting", attempt |-> 0]]
                    /\ models_lock' = [models_lock EXCEPT
                                          !.waiters = Append(@, r)]
                    /\ UNCHANGED <<translator_loaded, models_loading>>
    /\ UNCHANGED ld_failed
    /\ UNCHANGED <<cbVars, rlVars, retryVars, cacheVars, apiVars, identVars,
                   registryVars, auxVars, clock>>

\* the lock is free and r is the first waiter: r resumes holding it
lock_acquired(r) ==
    /\ ld_call[r].pc = "waiting"
    /\ models_lock.holder = NoHolder
    /\ models_lock.waiters # <<>>
    /\ Head(models_lock.waiters) = r
    /\ ensure_locked(r, [holder |-> r, waiters |-> Tail(models_lock.waiters)])
    /\ UNCHANGED ld_served
    /\ UNCHANGED ld_failed
    /\ UNCHANGED <<cbVars, rlVars, retryVars, cacheVars, apiVars, identVars,
                   registryVars, auxVars, clock>>

\* one run of load_models' body ends with out, inside the retry wrapper and
\* inside ensure_models_loaded's `async with _models_lock`
load_attempt_ends(r, out) ==
    /\ ld_call[r].pc = "loading"
    /\ IF out = NoExc
       THEN \* translator = new_translator; return True
            /\ translator_loaded' = TRUE
            /\ models_loading' = FALSE
            /\ models_lock' = released
            /\ ld_call' = [ld_call EXCEPT ![r] = [pc |-> "ready", attempt |-> 0]]
            /\ UNCHANGED <<ld_served, ld_failed>>
       ELSE IF load_catches(out) /\ ld_call[r].attempt < load_max_attempts - 1
       THEN \* await asyncio.sleep(delay): the lock stays with r
            /\ ld_call' = [ld_call EXCEPT ![r].pc = "backoff"]
            /\ UNCHANGED <<translator_loaded, models_loading, models_lock,
                           ld_served, ld_failed>>
       ELSE \* RetryExhausted or an error not retried: `except Exception`
            \* returns False and the endpoint answers 503
            /\ models_loading' = FALSE
            /\ models_lock' = released
            /\ ld_call' = [ld_call EXCEPT ![r] = IdleLoad]
            /\ ld_served' = ld_served + 1
            /\ ld_failed' = ld_failed + 1
            /\ UNCHANGED translator_loaded
    /\ UNCHANGED <<cbVars, rlVars, retryVars, cacheVars, apiVars, identVars,
                   registryVars, auxVars, clock>>

\* the backoff sleep is over: next attempt
backoff_ends(r) ==
    /\ ld_call[r].pc = "backoff"
    /\ ld_call' = [ld_call EXCEPT ![r] =
                      [pc |-> "loading", attempt |-> ld_call[r].attempt + 1]]
    /\ UNCHANGED <<translator_loaded, models_loading, models_lock, ld_served>>
    /\ UNCHANGED ld_failed
    /\ UNCHANGED <<cbVars, rlVars, retryVars, cacheVars, apiVars, identVars,
                   registryVars, auxVars, clock>>

\* the models are there: the endpoint goes on (rate limit, cache, translation)
\* and answers
endpoint_continues(r) ==
    /\ ld_call[r].pc = "ready"
    /\ ld_call' = [ld_call EXCEPT ![r] = IdleLoad]
    /\ ld_served' = ld_served + 1
    /\ UNCHANGED <<translator_loaded, models_loading, models_lock>>
    /\ UNCHANGED ld_failed
    /\ UNCHANGED <<cbVars, rlVars, retryVars, cacheVars, apiVars, identVars,
                   registryVars, auxVars, clock>>

\* what request r can do next
request_step(r) ==
    \/ lock_acquired(r)
    \/ \E out \in LoadOutcomes : load_attempt_ends(r, out)
    \/ backoff_ends(r)
    \/ endpoint_continues(r)

InitLoadState ==
    /\ translator_loaded = FALSE
    /\ models_loading = FALSE
    /\ models_lock = FreeLock
    /\ ld_call = [r \in LoadRequests |-> IdleLoad]
    /\ ld_served = 0
    /\ ld_failed = 0

InitExtraIdle ==
    InitLoadState /\ InitIdentIdle /\ InitRegistryState /\ InitAuxIdle

NextLoad ==
    \/ \E r \in LoadRequests : \E ep \in Endpoints : request_arrives(r, ep)
    \/ \E r \in LoadRequests : lock_acquired(r)
    \/ \E r \in LoadRequests : \E out \in LoadOutcomes : load_attempt_ends(r, out)
    \/ \E r \in LoadRequests : backoff_ends(r)
    \/ \E r \in LoadRequests : endpoint_continues(r)

----------------------------------------------------------------------------
(* POST /translate/text *)

MaxRequests == 3        \* requests handled

translation_ttl == 86400        \* set_translation(..., ttl=86400)

\* RATE_LIMITS and get_rate_limit (auth.py): requests per minute of a tier
get_rate_limit(tier) ==
    CASE tier = "free"       -> 10
      [] tier = "basic"      -> 50
      [] tier = "pro"        -> 200
      [] tier = "enterprise" -> 1000
      [] tier = "admin"      -> 10000
      [] OTHER               -> 10

\* the authenticated caller of the endpoint
user == [user_id |-> "u1", tier |-> "free"]

user_request == [user_data |-> user, forwarded |-> NoHeader,
                 client |-> "10.0.0.1"]

user_key == _get_identifier(user_request, user_request.user_data)

\* the breaker of AsyncRealtimeTranslator.translate_text:
\* @async_circuit_breaker(failure_threshold=5, recovery_timeout=60)
nllb_failure_threshold == 5
nllb_recovery_timeout == 60

\* what the backend may do with a text: a translation, or an error
BackendOutcomes == Translations \cup {"ValueError"}

\* rate_limiter.check_rate_limit as the endpoint calls it: one transactional
\* pipeline on the store, or ConnectionError when the store does not answer
limiter_outcome(request, reachable) ==
    IF ~enabled
    THEN [raised |-> NoExc, allowed |-> TRUE, store |-> Store]
    ELSE IF ~reachable
    THEN [raised |-> "ConnectionError", allowed |-> FALSE, store |-> Store]
    ELSE LET key == _get_identifier(request, request.user_data)
             now == clock
             run == RunCommands(Store,
                       << [cmd |-> "zremrangebyscore", key |-> key, a |-> 0,
                           b |-> now - window_seconds],
                          [cmd |-> "zcard", key |-> key, a |-> 0, b |-> 0],
                          [cmd |-> "zadd", key |-> key, a |-> now, b |-> now],
                          [cmd |-> "expire", key |-> key, a |-> window_seconds * 2,
                           b |-> 0] >>, 4, <<>>)
         IN  [raised |-> NoExc, allowed |-> allowed(run.results[2]),
              store |-> run.store]

\* faulty variant: the cache is looked up whatever the limiter answered
ReachesCacheAlways(lim) == TRUE

\* api.py:594-613: check_rate_limit is called first; when it raises, or
\* returns allowed = False (HTTPException 429), the handler ends there and the
\* cache look-up of line 615 is not reached
reaches_cache(lim) == lim.raised = NoExc /\ lim.allowed

\* `if cached:` : None and the empty string are both false
truthy(result) == result.kind = "hit" /\ result.value # ""

\* the exception handlers registered on the app (api.py:167-214) and
\* FastAPI's own handler for HTTPException
exception_handler(exc) ==
    CASE exc.cls = "HTTPException"       -> [status |-> exc.status, retry_after |-> 0]
      [] exc.cls = "CircuitBreakerError" -> [status |-> 503, retry_after |-> 60]
      [] OTHER                           -> [status |-> 500, retry_after |-> 0]

\* `except Exception as e: raise HTTPException(status_code=500, ...)` around
\* the call of the translator (api.py:660-662)
translate_except(cls) ==
    IF issubclass(cls, "Exception")
    THEN [cls |-> "HTTPException", status |-> 500]
    ELSE [cls |-> cls, status |-> 0]

IdleRequest == [pc |-> "idle", text |-> "", pre_cached |-> NoBytes,
                entry_state |-> CLOSED]

NoResponse ==
    [n |-> 0, op |-> "init", caller |-> "none", text |-> "", status |-> 0,
     retry_after |-> 0, translated |-> "", cached |-> FALSE,
     limiter_allowed |-> FALSE, cache_reachable |-> FALSE,
     pre_cached |-> NoBytes, breaker |-> "none", breaker_state |-> CLOSED,
     backend |-> "none", stored |-> FALSE]

\* response n+1: how it came about is recorded with it
Response(c, text, answer, translated, cached, limiter_allowed, cache_reachable, pre_cached, breaker, breaker_state, backend, stored) ==
    [n |-> api_ev.n + 1, op |-> "response", caller |-> c, text |-> text,
     status |-> answer.status, retry_after |-> answer.retry_after,
     translated |-> translated, cached |-> cached,
     limiter_allowed |-> limiter_allowed, cache_reachable |-> cache_reachable,
     pre_cached |-> pre_cached, breaker |-> breaker,
     breaker_state |-> breaker_state, backend |-> backend, stored |-> stored]

AwaitingBackend == {c \in Callers : api_call[c].pc = "awaiting"}

\* api.py:591-640: the handler up to `await translator.translate_text(...)`:
\* rate limit, cache look-up, and the breaker's __enter__ in the wrapper.
\* The translator is loaded (lines 579-589 are skipped).  reachable says
\* whether the store answers during this step.
translate_text_endpoint(c, text, reachable) ==
    /\ api_call[c].pc = "idle"
    /\ api_ev.n + Cardinality(AwaitingBackend) < MaxRequests
    /\ LET lim    == limiter_outcome(user_request, reachable)
           key    == translation_key(text)
           found  == redis_get(strings, key)
           looked == reaches_cache(lim)
           out    == get_outcome(key, reachable)
           cached == out.result
           called == looked /\ ~truthy(cached)
           open   == state = OPEN /\ ~_should_attempt_reset
       IN  /\ zsets' = lim.store.z
           /\ expires' = lim.store.e
           /\ hits' = IF looked THEN out.hits ELSE hits
           /\ misses' = IF looked THEN out.misses ELSE misses
           /\ state' = IF called /\ state = OPEN /\ ~open THEN HALF_OPEN ELSE state
           /\ invoked' = IF called /\ ~open THEN invoked + 1 ELSE invoked
           /\ IF lim.raised # NoExc
              THEN \* nothing catches it: general_exception_handler
                   /\ api_ev' = Response(c, text,
                          exception_handler([cls |-> lim.raised, status |-> 0]),
                          "", FALSE, FALSE, reachable, found, "none", state,
                          "none", FALSE)
                   /\ UNCHANGED api_call
              ELSE IF ~lim.allowed
              THEN \* raise HTTPException(status_code=429, ...)
                   /\ api_ev' = Response(c, text,
                          exception_handler([cls |-> "HTTPException", status |-> 429]),
                          "", FALSE, FALSE, reachable, found, "none", state,
                          "none", FALSE)
                   /\ UNCHANGED api_call
              ELSE IF truthy(cached)
              THEN /\ api_ev' = Response(c, text, [status |-> 200, retry_after |-> 0],
                          cached.value, TRUE, TRUE, reachable, found, "none", state,
                          "none", FALSE)
                   /\ UNCHANGED api_call
              ELSE IF open
              THEN \* __enter__ raises CircuitBreakerError inside the try block
                   /\ api_ev' = Response(c, text,
                          exception_handler(translate_except("CircuitBreakerError")),
                          "", FALSE, TRUE, reachable, found, "CircuitBreakerError",
                          state, "none", FALSE)
                   /\ UNCHANGED api_call
              ELSE /\ api_call' = [api_call EXCEPT ![c] =
                          [pc |-> "awaiting", text |-> text, pre_cached |-> found,
                           entry_state |-> state]]
                   /\ UNCHANGED api_ev
    /\ UNCHANGED <<failure_count, last_failure_time, total_calls, total_failures,
                   total_successes, failure_threshold, recovery_timeout,
                   expected_exception, cb_call, consecutive, cb_ev>>
    /\ UNCHANGED <<enabled, max_requests, window_seconds, rl_call, rl_ev, rl_log>>
    /\ UNCHANGED <<cache_enabled, sets, strings, cache_ev, last_set>>
    /\ UNCHANGED <<retryVars, extraVars, clock>>

\* api.py:640-662: the backend ends, the breaker's __exit__ records the
\* outcome, then the result is cached and returned, or the error is turned
\* into HTTPException(500)
translate_text_returns(c, outcome, reachable) ==
    /\ api_call[c].pc = "awaiting"
    /\ LET me     == api_call[c]
           key    == translation_key(me.text)
           failed == outcome \notin Translations
           exc    == IF failed THEN outcome ELSE NoExc
           put    == set_outcome(key, outcome, translation_ttl, reachable)
       IN  /\ total_calls' = total_calls + 1
           /\ IF is_failure(exc) THEN _on_failure ELSE _on_success
           /\ IF failed
              THEN /\ api_ev' = Response(c, me.text,
                          exception_handler(translate_except(exc)), "", FALSE,
                          TRUE, reachable, me.pre_cached, "entered",
                          me.entry_state, outcome, FALSE)
                   /\ UNCHANGED <<strings, sets>>
              ELSE /\ strings' = put.strings
                   /\ sets' = put.sets
                   /\ api_ev' = Response(c, me.text,
                          [status |-> 200, retry_after |-> 0], outcome, FALSE,
                          TRUE, reachable, me.pre_cached, "entered",
                          me.entry_state, "returned",
                          redis_get(put.strings, key) = pickle_dumps(outcome))
    /\ api_call' = [api_call EXCEPT ![c] = IdleRequest]
    /\ UNCHANGED <<failure_threshold, recovery_timeout, expected_exception,
                   cb_call, invoked, consecutive, cb_ev>>
    /\ UNCHANGED <<rlVars, retryVars, extraVars, clock>>
    /\ UNCHANGED <<cache_enabled, hits, misses, cache_ev, last_set>>

InitAPIIdle ==
    /\ api_call = [c \in Callers |-> IdleRequest]
    /\ api_ev = NoResponse

\* the service some time after a start-up that found the store: the
\* translation breaker is fresh or has just recorded its fourth failure in a
\* row, the caller's window is empty or holds nine requests of the last
\* seconds, the cache is empty
InitAPIState ==
    /\ api_call = [c \in Callers |-> IdleRequest]
    /\ api_ev = NoResponse
    /\ failure_threshold = nllb_failure_threshold
    /\ recovery_timeout = nllb_recovery_timeout
    /\ expected_exception = "Exception"
    /\ state = CLOSED
    /\ \E earlier \in {0, nllb_failure_threshold - 1} :
          /\ failure_count = earlier
          /\ total_calls = earlier
          /\ total_failures = earlier
          /\ invoked = earlier
          /\ consecutive = earlier
          /\ last_failure_time = IF earlier = 0 THEN NoTime ELSE 0
    /\ total_successes = 0
    /\ cb_call = [c \in Callers |-> IdleCall]
    /\ cb_ev = [op |-> "init", caller |-> "none", ended |-> NoExc,
                pre_state |-> CLOSED, pre_fc |-> 0,
                pre_lft |-> NoTime, pre_invoked |-> 0, pre_probes |-> 0,
                pre_running |-> 0, pre_failures |-> 0,
                pre_calls |-> 0, pre_successes |-> 0,
                at |-> 0, raised |-> NoExc, recorded |-> "none"]
    /\ enabled = TRUE
    /\ max_requests = get_rate_limit(user.tier)
    /\ window_seconds = 60
    /\ \E window \in {{}, (0 - 9)..(0 - 1)} :
          /\ zsets = [k \in {user_key} |-> window]
          /\ expires = [k \in {user_key} |->
                           IF window # {} THEN 2 * 60 - 1 ELSE NoTime]
    /\ rl_call = [c \in Callers |-> IdleCheck]
    /\ rl_ev = [op |-> "init", caller |-> "none", used_store |-> FALSE,
                identifier |-> <<"ip", "">>, now |-> 0, allowed |-> TRUE,
                info |-> NoInfo, before |-> {}, after |-> {},
                reachable |-> TRUE, raised |-> NoExc]
    /\ rl_log = <<>>
    /\ cache_enabled = TRUE
    /\ hits = 0
    /\ misses = 0
    /\ sets = 0
    /\ strings = [k \in CacheKeys |-> NoEntry]
    /\ cache_ev = NoCacheEvent
    /\ last_set = [k \in CacheKeys |-> NoSet]

InitAPI == InitAPIState /\ InitRetryIdle /\ InitExtraIdle /\ clock = 0

NextAPI ==
    \/ \E c \in Callers : \E t \in Texts : \E up \in BOOLEAN :
          translate_text_endpoint(c, t, up)
    \/ \E c \in Callers : \E out \in BackendOutcomes : \E up \in BOOLEAN :
          translate_text_returns(c, out, up)
    \/ Tick

SpecAPI == InitAPI /\ [][NextAPI]_vars

\* the requests of one second: the same handlers with the clock standing
NextPipeline ==
    \/ \E c \in Callers : \E t \in Texts : \E up \in BOOLEAN :
          translate_text_endpoint(c, t, up)
    \/ \E c \in Callers : \E out \in BackendOutcomes : \E up \in BOOLEAN :
          translate_text_returns(c, out, up)

SpecPipeline == InitAPI /\ [][NextPipeline]_vars

InitCB ==
    InitCBState /\ InitRLIdle /\ InitRetryIdle /\ InitCacheIdle /\ InitAPIIdle
        /\ InitExtraIdle /\ clock = 0

InitRL ==
    InitRLState /\ InitCBIdle /\ InitRetryIdle /\ InitCacheIdle /\ InitAPIIdle
        /\ InitExtraIdle /\ clock = 0

InitRetry ==
    InitRetryState /\ InitCBIdle /\ InitRLIdle /\ InitCacheIdle /\ InitAPIIdle
        /\ InitExtraIdle /\ clock = 0

InitCache ==
    InitCacheState /\ InitCBIdle /\ InitRLIdle /\ InitRetryIdle /\ InitAPIIdle
        /\ InitExtraIdle /\ clock = 0

NextRL ==
    \/ \E c \in Callers : \E r \in Requests : \E up \in BOOLEAN :
          check_rate_limit(c, r, up)
    \/ \E c \in Callers : execute(c)
    \/ Tick

SpecCB == InitCB /\ [][NextCB]_vars

InitCBBurst ==
    InitCBBurstState /\ InitRLIdle /\ InitRetryIdle /\ InitCacheIdle /\ InitAPIIdle
        /\ InitExtraIdle /\ clock = 0

SpecCBBurst == InitCBBurst /\ [][NextCBBurst]_vars

NextRetry ==
    \/ call_func
    \/ func_ends
    \/ sleep_ends
    \/ raise_exhausted

SpecRL == InitRL /\ [][NextRL]_vars

SpecRetry == InitRetry /\ [][NextRetry]_vars

InitLoad ==
    InitLoadState /\ InitIdentIdle /\ InitRegistryState /\ InitAuxIdle /\ InitCBIdle /\ InitRLIdle /\ InitRetryIdle
        /\ InitCacheIdle /\ InitAPIIdle /\ clock = 0

InitIdent ==
    InitIdentState /\ InitLoadState /\ InitRegistryState /\ InitAuxIdle /\ InitCBIdle /\ InitRLIdle /\ InitRetryIdle
        /\ InitCacheIdle /\ InitAPIIdle /\ clock = 0

SpecIdent == InitIdent /\ [][NextIdent]_vars

\* a handler with any of the settings, its wrapper not running
InitDelay ==
    /\ max_attempts = 3
    /\ exceptions = {"Exception"}
    /\ jitter \in BOOLEAN
    /\ max_delay \in MaxDelays
    /\ script = [i \in 1..MaxAttempts |-> NoExc]
    /\ attempt = 0
    /\ last_exception = NoException
    /\ rt_pc = "idle"
    /\ invocations = 0
    /\ sleeps = <<>>
    /\ rt_result = NoResult
    /\ cancelled = NotCancelled
    /\ InitDelayIdle /\ InitKeyIdle /\ InitStatsIdle /\ InitWrapIdle
    /\ InitLoadState /\ InitIdentIdle /\ InitRegistryState
    /\ InitCBIdle /\ InitRLIdle /\ InitCacheIdle /\ InitAPIIdle /\ clock = 0

SpecDelay == InitDelay /\ [][NextDelay]_vars

InitKey ==
    InitKeyState /\ InitDelayIdle /\ InitStatsIdle /\ InitWrapIdle /\ InitLoadState /\ InitIdentIdle
        /\ InitRegistryState /\ InitCBIdle /\ InitRLIdle /\ InitRetryIdle
        /\ InitCacheIdle /\ InitAPIIdle /\ clock = 0

SpecKey == InitKey /\ [][NextKey]_vars

InitStats ==
    InitStatsState /\ InitDelayIdle /\ InitKeyIdle /\ InitWrapIdle /\ InitLoadState
        /\ InitIdentIdle /\ InitRegistryState /\ InitCBIdle /\ InitRLIdle
        /\ InitRetryIdle /\ InitAPIIdle /\ clock = 0

SpecStats == InitStats /\ [][NextStats]_vars

InitAudio ==
    /\ wrapped \in [WrappedNames -> EarlierAttributes]
    /\ wrapped["text_translation"] = FreshBreaker
    /\ InitAudioIdle /\ InitV2Idle
    /\ InitDelayIdle /\ InitKeyIdle /\ InitStatsIdle /\ InitLoadState
    /\ InitIdentIdle /\ InitRegistryState /\ InitCBIdle /\ InitRLIdle
    /\ InitRetryIdle /\ InitCacheIdle /\ InitAPIIdle /\ clock = 0

SpecAudio == InitAudio /\ [][NextAudio]_vars

InitV2 ==
    /\ InitWrapIdle
    /\ InitDelayIdle /\ InitKeyIdle /\ InitStatsIdle /\ InitLoadState
    /\ InitIdentIdle /\ InitRegistryState /\ InitCBIdle /\ InitRLIdle
    /\ InitRetryIdle /\ InitCacheIdle /\ InitAPIIdle /\ clock = 0

SpecV2 == InitV2 /\ [][NextV2]_vars

InitRegistry ==
    InitRegistryState /\ InitLoadState /\ InitIdentIdle /\ InitAuxIdle /\ InitCBIdle /\ InitRLIdle
        /\ InitRetryIdle /\ InitCacheIdle /\ InitAPIIdle /\ clock = 0

SpecRegistry == InitRegistry /\ [][NextRegistry]_vars

SpecLoad == InitLoad /\ [][NextLoad]_vars

\* AsyncRetryHandler: the task running the wrapper can be cancelled at its
\* two awaits
NextAsyncRetry ==
    \/ call_func
    \/ func_ends
    \/ sleep_ends
    \/ raise_exhausted
    \/ cancel_running
    \/ cancel_sleeping

SpecAsyncRetry == InitRetry /\ [][NextAsyncRetry]_vars

SpecCache == InitCache /\ [][NextCache]_vars

----------------------------------------------------------------------------
(* Properties of the circuit breaker, checked under SpecCB *)

RecordedFailure == cb_ev.op = "exit" /\ cb_ev.recorded = "failure"
RecordedSuccess == cb_ev.op = "exit" /\ cb_ev.recorded = "success"

\* C1: once failure_threshold failures have been recorded in a row (no
\* success and no reset in between), whatever the state they started from,
\* the breaker is OPEN; a breaker that has recorded fewer than
\* failure_threshold failures and no success is CLOSED.
C1_OpensAtThreshold ==
    /\ (RecordedFailure /\ consecutive >= failure_threshold) => state = OPEN
    /\ (total_successes = 0 /\ total_failures < failure_threshold) => state = CLOSED

C1_Witness ==
    /\ RecordedFailure
    /\ cb_ev.pre_state = CLOSED
    /\ failure_threshold = 2
    /\ consecutive = failure_threshold
    /\ total_successes > 0
    /\ state = OPEN

\* C2: a call entering an OPEN breaker less than recovery_timeout after
\* last_failure_time is rejected with CircuitBreakerError, the protected
\* operation is not started and the breaker stays OPEN; a call entering an
\* OPEN breaker once recovery_timeout has elapsed is admitted and the breaker
\* is HALF_OPEN when the operation starts.
C2_OpenRejectsUntilTimeout ==
    (cb_ev.op = "enter" /\ cb_ev.pre_state = OPEN) =>
        /\ cb_ev.pre_lft # NoTime
        /\ IF cb_ev.at - cb_ev.pre_lft < recovery_timeout
           THEN /\ cb_ev.raised = "CircuitBreakerError"
                /\ invoked = cb_ev.pre_invoked
                /\ cb_call[cb_ev.caller].pc = "idle"
                /\ state = OPEN
           ELSE /\ cb_ev.raised = NoExc
                /\ invoked = cb_ev.pre_invoked + 1
                /\ cb_call[cb_ev.caller].pc = "running"
                /\ state = HALF_OPEN

C2_Witness ==
    /\ cb_ev.op = "enter"
    /\ cb_ev.pre_state = OPEN
    /\ recovery_timeout = 2
    /\ cb_ev.at - cb_ev.pre_lft = 1
    /\ cb_ev.raised = "CircuitBreakerError"
    /\ clock = cb_ev.at

\* C3: an outcome recorded while the breaker is HALF_OPEN: a success leaves
\* it CLOSED with failure_count = 0; a failure leaves it OPEN with
\* last_failure_time = the time of that failure, so that no call is admitted
\* until a full recovery_timeout has passed since then.
C3_HalfOpenOutcome ==
    (cb_ev.op = "exit" /\ cb_ev.pre_state = HALF_OPEN) =>
        /\ cb_ev.recorded = "success" => (state = CLOSED /\ failure_count = 0)
        /\ cb_ev.recorded = "failure" =>
              /\ state = OPEN
              /\ last_failure_time = cb_ev.at
              /\ (clock - cb_ev.at < recovery_timeout) => ~_should_attempt_reset

C3_Witness ==
    /\ RecordedFailure
    /\ cb_ev.pre_state = HALF_OPEN
    /\ cb_ev.pre_lft # cb_ev.at
    /\ state = OPEN
    /\ clock > cb_ev.at

\* C4: while a probe admitted through HALF_OPEN is in flight, a further call
\* arriving at the HALF_OPEN breaker is not admitted (the protected operation
\* is not started for it).
C4_SingleProbe ==
    (cb_ev.op = "enter" /\ cb_ev.pre_state = HALF_OPEN /\ cb_ev.pre_probes >= 1) =>
        /\ cb_ev.raised # NoExc
        /\ invoked = cb_ev.pre_invoked

\* C16: whenever a recorded failure moves the breaker into OPEN (from CLOSED
\* or HALF_OPEN, with any number of other calls in flight), failure_count is
\* at least failure_threshold at that moment.
C16_OpensOnlyAtThreshold ==
    (RecordedFailure /\ cb_ev.pre_state # OPEN /\ state = OPEN) =>
        failure_count >= failure_threshold

\* C17: a success recorded while the breaker is CLOSED lowers failure_count
\* by exactly 1 when it was positive and leaves it at 0 otherwise, and
\* failure_count is never negative.
C17_SuccessDecrements ==
    /\ failure_count >= 0
    /\ (RecordedSuccess /\ cb_ev.pre_state = CLOSED) =>
          failure_count = IF cb_ev.pre_fc > 0 THEN cb_ev.pre_fc - 1 ELSE 0

C17_Witness ==
    /\ RecordedSuccess
    /\ cb_ev.pre_state = CLOSED
    /\ cb_ev.pre_fc = 2
    /\ failure_count = 1
    /\ state = CLOSED

\* the error classes the breaker is configured to count
Matches(cls) ==
    IF expected_exception = "Exception"
    THEN cls \in {"ValueError", "TimeoutError"}
    ELSE cls = expected_exception

\* C18: when the protected operation raises an error matching
\* expected_exception, failure_count and total_failures each grow by exactly
\* 1 and the caller gets that error; an error that does not match leaves
\* failure_count no larger, does not open the breaker, and reaches the caller
\* as it is.
C18_MatchingErrorRecorded ==
    (cb_ev.op = "exit" /\ cb_ev.ended # NoExc) =>
        /\ cb_ev.raised = cb_ev.ended
        /\ IF Matches(cb_ev.ended)
           THEN /\ cb_ev.recorded = "failure"
                /\ failure_count = cb_ev.pre_fc + 1
                /\ total_failures = cb_ev.pre_failures + 1
           ELSE /\ cb_ev.recorded = "success"
                /\ failure_count <= cb_ev.pre_fc
                /\ total_failures = cb_ev.pre_failures
                /\ state = OPEN => cb_ev.pre_state = OPEN

C18_Witness ==
    /\ cb_ev.op = "exit"
    /\ expected_exception = "ValueError"
    /\ cb_ev.ended = "TimeoutError"
    /\ cb_ev.raised = "TimeoutError"
    /\ cb_ev.pre_state = CLOSED
    /\ cb_ev.pre_fc = failure_threshold - 1
    /\ cb_ev.pre_fc > 0
    /\ state = CLOSED

\* C19: every admitted call records exactly one outcome when it leaves the
\* `with` block, however it leaves it: the calls admitted are the calls in
\* flight plus the outcomes recorded, every outcome is one success or one
\* failure, and so with no call in flight total_calls = total_successes +
\* total_failures = calls admitted.
C19_OneOutcomePerCall ==
    /\ total_calls = total_successes + total_failures
    /\ invoked = total_calls + InFlight
    /\ InFlight = 0 => (total_calls = invoked /\ total_successes + total_failures = invoked)

C19_Witness ==
    /\ InFlight = 0
    /\ cb_ev.op = "exit"
    /\ cb_ev.raised = "CancelledError"
    /\ total_failures >= 1
    /\ total_successes >= 2
    /\ total_calls = invoked

\* C20: the breaker does not serialize the protected calls: a call arriving
\* at a CLOSED breaker is admitted at once however many calls are in flight,
\* and a call in flight can always finish; entry and exit each take effect
\* as one step.
C20_CallsNotSerialized ==
    /\ \A c \in Callers :
          (cb_call[c].pc = "idle" /\ state = CLOSED /\ invoked < MaxCalls)
              => ENABLED __enter__(c)
    /\ \A c \in Callers : cb_call[c].pc = "running" => ENABLED __exit__(c, NoExc)
    /\ (cb_ev.op = "enter" /\ cb_ev.pre_state = CLOSED) =>
          /\ cb_ev.raised = NoExc
          /\ InFlight = cb_ev.pre_running + 1

C20_Witness ==
    /\ cb_ev.op = "enter"
    /\ cb_ev.pre_running >= 1
    /\ InFlight = Cardinality(Callers)
    /\ cb_ev.raised = NoExc

----------------------------------------------------------------------------
(* Properties of the rate limiter, checked under SpecRL *)

StoreCheck == rl_ev.op = "check" /\ rl_ev.used_store

Earlier == 1..(Len(rl_log) - 1)

\* the checks so far were made one after the other: each one was carried out
\* at the time it read, and later than the one before
InSuccession ==
    /\ \A i \in 1..Len(rl_log) : rl_log[i].at = rl_log[i].now
    /\ \A i \in Earlier : rl_log[i].now < rl_log[i + 1].now

\* earlier checks of the same identity that lie in the window of the last one
EarlierInWindow ==
    {i \in Earlier : /\ rl_log[i].identifier = rl_ev.identifier
                     /\ rl_log[i].now > rl_ev.now - window_seconds}

\* C5: for checks of one identity made one after the other: a check with
\* fewer than L earlier checks in its window is admitted (so the first L of
\* a burst are), a check with L or more earlier checks in its window is
\* rejected (so the (L+1)-th is), and a check made more than w seconds after
\* all earlier ones is admitted.
C5_BurstThenWindow ==
    (StoreCheck /\ InSuccession) =>
        /\ Cardinality(EarlierInWindow) < max_requests => rl_ev.allowed
        /\ Cardinality(EarlierInWindow) >= max_requests => ~rl_ev.allowed
        /\ (\A i \in Earlier : rl_ev.now - rl_log[i].now > window_seconds)
              => rl_ev.allowed

C5_Witness ==
    /\ StoreCheck
    /\ InSuccession
    /\ Len(rl_log) = 3
    /\ max_requests = 1
    /\ rl_log[1].allowed
    /\ ~rl_log[2].allowed
    /\ rl_log[2].now - rl_log[1].now < window_seconds
    /\ rl_log[3].now - rl_log[2].now > window_seconds
    /\ rl_ev.allowed

\* admitted checks of the identity of check i whose `now` lies in the w
\* seconds ending at the `now` of check i
AdmittedInWindow(i) ==
    {j \in 1..Len(rl_log) :
        /\ rl_log[j].allowed
        /\ rl_log[j].identifier = rl_log[i].identifier
        /\ rl_log[j].now > rl_log[i].now - window_seconds
        /\ rl_log[j].now <= rl_log[i].now}

\* C35: for any identity and any interval of w seconds at most L checks are
\* admitted, however the callers interleave and also when their `now`
\* timestamps are equal.
C35_AtMostLPerWindow ==
    \A i \in 1..Len(rl_log) : Cardinality(AdmittedInWindow(i)) <= max_requests

\* earlier admitted checks of the identity in the window of the last check
EarlierAdmittedInWindow == {i \in EarlierInWindow : rl_log[i].allowed}

\* C36: a check is admitted whenever fewer than L checks of its identity
\* were admitted in the trailing w seconds, so an identity that kept calling
\* while rejected is admitted again once its admitted checks left the window.
C36_AdmittedWhenBelowLimit ==
    (StoreCheck /\ InSuccession) =>
        (Cardinality(EarlierAdmittedInWindow) < max_requests => rl_ev.allowed)

\* C6: a rejected check records no timestamp: all it does to the identity's
\* window is purge the entries not greater than now - w.
C6_RejectedRecordsNothing ==
    (StoreCheck /\ ~rl_ev.allowed) =>
        rl_ev.after = {m \in rl_ev.before : m > rl_ev.now - window_seconds}

\* C7: purge, count and record of one check act on the store as one unit: no
\* check is ever part-way through them while another acts, the count a check
\* returns is the size of the purged window it found, and the window it
\* leaves is that purged window plus its own timestamp.
C7_PipelineAtomic ==
    /\ \A c \in Callers : rl_call[c].results = <<>>
    /\ StoreCheck =>
          LET kept == {m \in rl_ev.before : m > rl_ev.now - window_seconds}
          IN  /\ rl_ev.info.current = Cardinality(kept)
              /\ rl_ev.after = kept \cup {rl_ev.now}

C7_Witness ==
    /\ StoreCheck
    /\ rl_ev.before # {}
    /\ \E c \in Callers : /\ rl_call[c].pc = "queued"
                          /\ rl_call[c].identifier = rl_ev.identifier
                          /\ rl_call[c].now <= rl_ev.now

\* C13: a check made by a limiter that was created enabled, at a moment when
\* its store does not answer, raises nothing to the caller and admits the
\* request.
C13_StoreOutageAdmits ==
    (rl_ev.op = "check" /\ enabled /\ ~rl_ev.reachable) =>
        /\ rl_ev.raised = NoExc
        /\ rl_ev.allowed

\* C23: a check made by a disabled limiter is admitted whatever the limit and
\* whatever the store holds for the identity, reports remaining = limit =
\* max_requests, raises nothing and leaves the store as it is.
C23_DisabledAdmitsAll ==
    [][(~enabled /\ rl_ev' # rl_ev) =>
          /\ rl_ev'.op = "check"
          /\ rl_ev'.allowed
          /\ rl_ev'.raised = NoExc
          /\ rl_ev'.info.limit = max_requests
          /\ rl_ev'.info.remaining = rl_ev'.info.limit
          /\ ~rl_ev'.used_store
          /\ zsets' = zsets
          /\ expires' = expires]_vars

\* admitted by the disabled limiter although the store already holds as many
\* timestamps as the limit allows
C23_Witness ==
    /\ ~enabled
    /\ rl_ev.op = "check"
    /\ rl_ev.allowed
    /\ max_requests = 1
    /\ \E k \in Identifiers : Cardinality(zsets[k]) >= max_requests

\* timestamps the store held inside the window of the last check, before it
InWindowBefore ==
    Cardinality({t \in rl_ev.before : t > rl_ev.now - window_seconds})

\* C24: a check that consulted the store rejects exactly when the count of
\* timestamps in the window before it is >= L; it reports remaining =
\* L - count - 1 when it admits and 0 when it rejects, never a negative
\* number.
C24_RemainingFromCount ==
    (rl_ev.op = "check" /\ rl_ev.used_store) =>
        /\ rl_ev.allowed <=> InWindowBefore < max_requests
        /\ rl_ev.allowed => rl_ev.info.remaining = max_requests - InWindowBefore - 1
        /\ ~rl_ev.allowed => rl_ev.info.remaining = 0
        /\ rl_ev.info.remaining >= 0
        /\ rl_ev.info.limit = max_requests

\* a rejection with the count above the limit: L - count - 1 is below -1
C24_Witness ==
    /\ rl_ev.op = "check"
    /\ rl_ev.used_store
    /\ ~rl_ev.allowed
    /\ InWindowBefore > max_requests
    /\ rl_ev.info.remaining = 0

----------------------------------------------------------------------------
(* Properties of the retry wrapper, checked under SpecRetry *)

\* the error classes the handler is configured to retry
Retryable(cls) == cls # NoExc /\ \E e \in exceptions : issubclass(cls, e)

\* the operation fails retryably on its first k calls and then succeeds
FailsThenSucceeds(k) ==
    /\ k < max_attempts
    /\ \A i \in 1..k : Retryable(script[i])
    /\ script[k + 1] = NoExc

\* C8: an operation that fails retryably k < max_attempts times and then
\* succeeds: the wrapper returns the value of call k+1 after exactly k+1
\* calls and exactly k sleeps.
C8_SucceedsAfterK ==
    \A k \in 0..(MaxAttempts - 1) :
        (rt_pc = "done" /\ FailsThenSucceeds(k)) =>
            /\ rt_result.kind = "returned"
            /\ rt_result.attempt = k
            /\ invocations = k + 1
            /\ Len(sleeps) = k

C8_Witness ==
    /\ rt_pc = "done"
    /\ max_attempts = 3
    /\ FailsThenSucceeds(2)
    /\ rt_result.kind = "returned"

AlwaysFails == \A i \in 1..max_attempts : Retryable(script[i])

\* C9: an operation that always fails retryably: the wrapper raises
\* RetryExhausted after exactly max_attempts calls and max_attempts - 1
\* sleeps, with the error of the last call as its cause.
C9_ExhaustsAfterMax ==
    (rt_pc = "done" /\ AlwaysFails) =>
        /\ rt_result.kind = "raised"
        /\ rt_result.cls = "RetryExhausted"
        /\ invocations = max_attempts
        /\ Len(sleeps) = max_attempts - 1
        /\ rt_result.cause = [cls |-> script[max_attempts],
                              attempt |-> max_attempts - 1]

C9_Witness ==
    /\ rt_pc = "done"
    /\ max_attempts = 3
    /\ AlwaysFails
    /\ script[1] # script[3]
    /\ rt_result.cls = "RetryExhausted"

\* the first error that is not retryable comes on call j
FirstNonRetryableAt(j) ==
    /\ j <= max_attempts
    /\ script[j] # NoExc
    /\ ~Retryable(script[j])
    /\ \A i \in 1..(j - 1) : Retryable(script[i])

\* C10: an error the handler is not configured to retry leaves the wrapper
\* as it is, on the call where it occurs: no call and no sleep follow it and
\* it is not wrapped in RetryExhausted.
C10_NonRetryablePropagates ==
    \A j \in 1..MaxAttempts :
        FirstNonRetryableAt(j) =>
            /\ invocations <= j
            /\ Len(sleeps) <= j - 1
            /\ rt_pc = "done" =>
                  /\ rt_result = [kind |-> "raised", cls |-> script[j],
                                  attempt |-> j - 1, cause |-> NoException]
                  /\ invocations = j
                  /\ Len(sleeps) = j - 1

C10_Witness ==
    /\ rt_pc = "done"
    /\ max_attempts = 3
    /\ exceptions = {"TimeoutError"}
    /\ FirstNonRetryableAt(2)
    /\ rt_result.cls = "ValueError"

\* C21: once the task running an AsyncRetryHandler wrapper is cancelled, while
\* the operation runs or during a backoff sleep, the wrapper is over: it
\* raised CancelledError (not RetryExhausted) and the operation has been
\* called no more often than at the moment of the cancellation.
C21_CancellationStopsRetry ==
    cancelled.at # "none" =>
        /\ rt_pc = "done"
        /\ rt_result.kind = "raised"
        /\ rt_result.cls = "CancelledError"
        /\ invocations = cancelled.invocations

\* cancelled in the backoff after a first failed attempt, with attempts left
C21_Witness ==
    /\ cancelled.at = "sleeping"
    /\ max_attempts = 3
    /\ invocations = 1
    /\ rt_result.cls = "CancelledError"

----------------------------------------------------------------------------
(* Properties of _get_identifier, checked under SpecIdent *)

\* the user data carries something
UserPresent == DOMAIN id_request.user_data # {}

\* the forwarded header is there and not empty
ForwardedPresent ==
    /\ id_request.forwarded # NoHeader
    /\ id_request.forwarded # <<Part("", FALSE, FALSE)>>

\* C25: the identifier returned is user:<user_id> when user data is present
\* (whatever the headers say); otherwise ip:<first address of
\* X-Forwarded-For> when that header is present; otherwise ip:<socket
\* address>.
C25_IdentityPrecedence ==
    id_result # NoIdentifier =>
        IF UserPresent
        THEN /\ id_result[1] = "user"
             /\ "user_id" \in DOMAIN id_request.user_data =>
                    id_result[2] = id_request.user_data.user_id
        ELSE IF ForwardedPresent
        THEN id_result = <<"ip", id_request.forwarded[1].text>>
        ELSE /\ id_result[1] = "ip"
             /\ id_request.client # NoClient => id_result[2] = id_request.client

\* an authenticated user behind a proxy chain, on a socket of its own
C25_Witness ==
    /\ id_result = <<"user", "u1">>
    /\ Len(id_request.forwarded) = 2
    /\ id_request.forwarded[1].text = "10.0.0.1"
    /\ id_request.client = "127.0.0.1"

\* C37: a HALF_OPEN breaker becomes CLOSED by the end of a call only when
\* that call is the probe that moved it to HALF_OPEN and it returned
\* normally: not by a call admitted earlier that finishes now, nor by a probe
\* that ends with an error the breaker does not count or with a cancellation.
C37_OnlyProbeSuccessCloses ==
    [][\A c \in Callers :
          (/\ state = HALF_OPEN /\ state' = CLOSED
           /\ cb_call[c].pc = "running" /\ cb_call'[c].pc = "idle")
              => (cb_call[c].entry_state = OPEN /\ cb_ev'.ended = NoExc)]_vars

\* C28: a call rejected because the breaker is OPEN leaves state,
\* failure_count, last_failure_time, total_calls, total_successes and
\* total_failures as they were.
C28_RejectionChangesNothing ==
    (cb_ev.op = "enter" /\ cb_ev.raised = "CircuitBreakerError") =>
        /\ cb_ev.pre_state = OPEN
        /\ state = cb_ev.pre_state
        /\ failure_count = cb_ev.pre_fc
        /\ last_failure_time = cb_ev.pre_lft
        /\ total_calls = cb_ev.pre_calls
        /\ total_successes = cb_ev.pre_successes
        /\ total_failures = cb_ev.pre_failures

\* a rejection by a breaker that has counted successes and failures
C28_Witness ==
    /\ cb_ev.op = "enter" /\ cb_ev.raised = "CircuitBreakerError"
    /\ total_successes >= 1 /\ total_failures >= 2 /\ total_calls >= 3

\* C30: every get adds one to exactly one of hits and misses (to hits when it
\* returns a value), a set adds one to sets exactly when it reached the
\* store, delete, clear_pattern and clear_all change no counter, and
\* hits + misses is the number of get calls.
C30_CountersMatchCalls ==
    /\ hits + misses = cache_ev.gets
    /\ cache_ev.op = "get" =>
          /\ sets = cache_ev.pre_sets
          /\ IF cache_ev.result.kind = "hit"
             THEN hits = cache_ev.pre_hits + 1 /\ misses = cache_ev.pre_misses
             ELSE hits = cache_ev.pre_hits /\ misses = cache_ev.pre_misses + 1
    /\ cache_ev.op = "set" =>
          /\ hits = cache_ev.pre_hits /\ misses = cache_ev.pre_misses
          /\ sets = cache_ev.pre_sets
                       + (IF cache_enabled /\ cache_ev.reachable THEN 1 ELSE 0)
    /\ cache_ev.op \in {"delete", "clear_pattern", "clear_all"} =>
          /\ hits = cache_ev.pre_hits /\ misses = cache_ev.pre_misses
          /\ sets = cache_ev.pre_sets

\* a get that the store did not answer, after a set and a get that found it
C30_Witness ==
    /\ cache_ev.op = "get" /\ ~cache_ev.reachable /\ cache_enabled
    /\ hits = 1 /\ misses = 1 /\ sets = 1 /\ cache_ev.gets = 2

----------------------------------------------------------------------------
(* Properties of the order of the request pipeline, checked under SpecPipeline *)

\* the step answers a request
Answers == api_ev'.n = api_ev.n + 1

\* the step reads the cache
ReadsCache == hits' # hits \/ misses' # misses

\* the step enters the translate backend
InvokesBackend == invoked' # invoked

\* the step writes to the cache
WritesCache == strings' # strings \/ sets' # sets

CarriedOut(op) ==
    /\ cache_ev'.n = cache_ev.n + 1
    /\ cache_ev'.op = op
    /\ cache_enabled /\ cache_ev'.reachable

\* what the store holds under key k: the pickled value, or nothing
Held(S, k) == IF S[k] = NoEntry \/ clock >= S[k].expiry THEN NoBytes ELSE S[k].bytes

\* C33: clear_pattern("<prefix>:*") removes every stored key of that prefix
\* and no other key, clear_all removes every key, and a get returns a miss
\* for a key the store no longer holds and the stored value for a key it
\* holds (so a removed key misses and a retained key is still found).
C33_ClearRemovesMatching ==
    [][/\ CarriedOut("clear_pattern") =>
              \A k \in CacheKeys :
                  Held(strings', k) = IF k[1] = cache_ev'.key[1] THEN NoBytes
                                      ELSE Held(strings, k)
       /\ CarriedOut("clear_all") =>
              \A k \in CacheKeys : Held(strings', k) = NoBytes
       /\ CarriedOut("get") =>
              /\ strings' = strings
              /\ cache_ev'.result =
                     IF Held(strings, cache_ev'.key) = NoBytes THEN Miss
                     ELSE Hit(Held(strings, cache_ev'.key)[2])]_vars

\* clear_pattern("translation:*") removed the translation and left the
\* transcription
C33_Witness ==
    /\ cache_ev.op = "clear_pattern" /\ cache_ev.key[1] = "translation"
    /\ cache_enabled /\ cache_ev.reachable /\ cache_ev.store_changed
    /\ \E k \in CacheKeys : k[1] = "transcription" /\ Held(strings, k) # NoBytes
    /\ \A k \in CacheKeys : k[1] = "translation" => Held(strings, k) = NoBytes

----------------------------------------------------------------------------
(* Properties of get_stats, checked under SpecStats *)

\* C34: get_stats reports hit_rate = hits / (hits + misses) * 100, to the
\* nearest hundredth (80.0 for hits = 80, misses = 20), and 0 when there
\* have been no gets.  hit_rate is in hundredths of a percent.
C34_HitRate ==
    st_ev.n > 0 =>
        LET total == st_ev.hits + st_ev.misses
        IN  /\ total = 0 => st_ev.hit_rate = 0
            /\ total > 0 =>
                  /\ 2 * (st_ev.hit_rate * total - st_ev.hits * 10000) <= total
                  /\ 2 * (st_ev.hits * 10000 - st_ev.hit_rate * total) <= total
            /\ (st_ev.hits = 80 /\ st_ev.misses = 20) => st_ev.hit_rate = 8000

\* the stats of a cache with 80 hits and 20 misses
C34_Witness ==
    /\ st_ev.n > 0 /\ st_ev.hits = 80 /\ st_ev.misses = 20
    /\ st_ev.hit_rate = 8000 /\ hits = 80 /\ misses = 20

----------------------------------------------------------------------------
(* Properties of _generate_key, checked under SpecKey *)

StartsWith(str, head) ==
    Len(str) >= Len(head) /\ SubSeq(str, 1, Len(head)) = head

----------------------------------------------------------------------------
(* Properties of calculate_delay, checked under SpecDelay *)

\* min(base_delay * exponential_base^n, max_delay), computed here by doubling
RECURSIVE Doubled(_, _)
Doubled(d, n) == IF n = 0 THEN d ELSE Doubled(d + d, n - 1)

Capped(n) == IF Doubled(1, n) < max_delay THEN Doubled(1, n) ELSE max_delay

\* C31: with jitter off the delay before retry n is
\* min(base_delay * exponential_base^n, max_delay), so the delays of attempts
\* 0, 1, 2, ... never decrease and never exceed max_delay; with jitter on
\* each delay lies between 0 and that value.
C31_DelayCappedMonotone ==
    /\ \A i \in 1..Len(delays) :
          /\ 0 <= delays[i] /\ delays[i] <= Capped(i - 1)
          /\ delays[i] <= max_delay
          /\ ~jitter => delays[i] = Capped(i - 1)
    /\ ~jitter => \A i \in 1..(Len(delays) - 1) : delays[i] <= delays[i + 1]

\* five delays without jitter, the last two held at max_delay = 8
C31_Witness ==
    ~jitter /\ max_delay = 8 /\ delays = <<1, 2, 4, 8, 8>>

----------------------------------------------------------------------------
(* Properties of the registry, checked under SpecRegistry *)

Decorated == {n \in BreakerNames : made[n].origin = "decorator"}

\* C26: every breaker made by a decorator is in the registry under its name:
\* get_all_stats lists it and the admin reset by name finds and resets it.
C26_DecoratedBreakersRegistered ==
    /\ Decorated \subseteq breakers
    /\ reg_ev.op = "get_all_stats" => Decorated \subseteq reg_ev.listed
    /\ (reg_ev.op = "reset" /\ reg_ev.name \in Decorated) => reg_ev.status = 200

\* the breakers the last reset reached
ResetReached ==
    IF reg_ev.op = "reset_all" THEN reg_ev.pre_breakers
    ELSE IF reg_ev.op = "reset" /\ reg_ev.status = 200 THEN {reg_ev.name}
    ELSE {}

\* C27: after reset() (by name) or reset_all(), every breaker reached, in
\* whatever state it was, is CLOSED with failure_count 0 and no
\* last_failure_time, and its three cumulative counters are as before;
\* reset_all reaches every registered breaker.
C27_ResetFrame ==
    /\ reg_ev.op = "reset_all" => ResetReached = breakers
    /\ \A n \in ResetReached :
          /\ made[n].attrs.state = CLOSED
          /\ made[n].attrs.failure_count = 0
          /\ made[n].attrs.last_failure_time = NoTime
          /\ made[n].attrs.total_calls = reg_ev.pre[n].attrs.total_calls
          /\ made[n].attrs.total_failures = reg_ev.pre[n].attrs.total_failures
          /\ made[n].attrs.total_successes = reg_ev.pre[n].attrs.total_successes

\* reset_all over two registered breakers, one OPEN and one HALF_OPEN, both
\* with calls counted
C27_Witness ==
    /\ reg_ev.op = "reset_all"
    /\ Cardinality(reg_ev.pre_breakers) >= 2
    /\ \E n \in reg_ev.pre_breakers : reg_ev.pre[n].attrs.state = OPEN
    /\ \E n \in reg_ev.pre_breakers : reg_ev.pre[n].attrs.state = HALF_OPEN
    /\ \A n \in reg_ev.pre_breakers : made[n].attrs.total_calls = 2

----------------------------------------------------------------------------
(* Properties of lazy model loading, checked under SpecLoad *)

\* C22: while one request is suspended in a retry backoff, every other
\* request that has started and is not answered yet can go on: nothing the
\* backoff holds keeps it from its next step.
C22_BackoffBlocksNobody ==
    \A r \in LoadRequests : \A q \in LoadRequests \ {r} :
        (ld_call[r].pc = "backoff" /\ ld_call[q].pc # "idle") =>
            ENABLED request_step(q)

\* the requests whose load_models call is under way
Loaders == {r \in LoadRequests : ld_call[r].pc \in {"loading", "backoff"}}

Waiters == {models_lock.waiters[i] : i \in 1..Len(models_lock.waiters)}

\* C38: at most one load runs at a time; once a load has succeeded no load
\* runs again; when no load is running (so after a failed one) and the models
\* are not there, _models_loading is False and the lock is free, so the next
\* request to take the lock loads; and no request waits for anything but the
\* lock, which a running load holds.
C38_OneLoadAtATime ==
    /\ Cardinality(Loaders) <= 1
    /\ translator_loaded => Loaders = {}
    /\ Loaders = {} => (~models_loading /\ models_lock.holder = NoHolder)
    /\ Loaders # {} => (models_loading /\ models_lock.holder \in Loaders)
    /\ \A r \in LoadRequests :
          /\ ld_call[r].pc # "polling"
          /\ ld_call[r].pc = "waiting" <=> r \in Waiters

\* after a failed load another request is loading while a third waits for
\* the lock
C38_Witness ==
    /\ ld_failed = 1 /\ ~translator_loaded
    /\ Cardinality(Loaders) = 1 /\ Cardinality(Waiters) = 1

\* C39 as stated: a call rejected by the transcription breaker raises
\* CircuitBreakerError; a call whose transcription returned while the
\* translation breaker is open returns (original, ""); both add exactly 1 to
\* failed_requests; and every call that ended gave back its unit of
\* active_requests.
C39_OpenBreakerCountsOneFailure ==
    /\ active_requests = Cardinality(InProgress)
    /\ pa_ev.transcribe = "rejected"
          => (pa_ev.raised = "CircuitBreakerError" /\ pa_ev.failed_added = 1)
    /\ (pa_ev.transcribe \in {"text", "empty"} /\ pa_ev.translate_open)
          => /\ pa_ev.raised = NoExc
             /\ pa_ev.returned = <<pa_ev.original, "">>
             /\ pa_ev.failed_added = 1

\* C39, amended: the second case holds when the transcription is not empty;
\* an empty transcription returns ("", "") and counts no failure, whatever the
\* translation breaker's state.
C39_OpenBreakerDegrades ==
    /\ active_requests = Cardinality(InProgress)
    /\ pa_ev.transcribe = "rejected"
          => (pa_ev.raised = "CircuitBreakerError" /\ pa_ev.failed_added = 1)
    /\ (pa_ev.transcribe = "text" /\ pa_ev.translate_open)
          => /\ pa_ev.raised = NoExc
             /\ pa_ev.returned = <<pa_ev.original, "">>
             /\ pa_ev.original # ""
             /\ pa_ev.failed_added = 1
    /\ pa_ev.transcribe = "empty"
          => /\ pa_ev.raised = NoExc
             /\ pa_ev.returned = <<"", "">>
             /\ pa_ev.failed_added = 0

\* a call rejected by the transcription breaker, then one that got its
\* transcription and found the translation breaker open, while another call
\* is under way
C39_Witness ==
    /\ pa_ev.transcribe = "text" /\ pa_ev.translate_open
    /\ pa_ev.returned = <<"annyeong", "">>
    /\ failed_requests = 2
    /\ InProgress # {}

\* C40: requests to /translate/text of rest_api_v2.py whose handler fails
\* are failures of breaker "text_translation": once five in a row have failed
\* the breaker is OPEN, and a request it rejects runs no handler.
C40_FailingRequestsOpenBreaker ==
    /\ v2_ev.failing_run >= WrappedThreshold
          => wrapped["text_translation"].state = OPEN
    /\ v2_ev.last = "rejected" => ~v2_ev.handler_ran

----------------------------------------------------------------------------
(* Properties of the cache, checked under SpecCache *)

\* the cache answered the last operation: enabled, and the store reachable
CacheAvailable == cache_enabled /\ cache_ev.reachable

\* C11: with the cache enabled and its store answering, get(key) after a
\* set(key, v, ttl) that was carried out, with no later set, delete or clear
\* of that key, returns v while less than ttl (default_ttl when none was
\* given) has passed since the set, and is a miss from then on.
C11_GetReturnsLastSet ==
    (cache_ev.op = "get" /\ CacheAvailable /\ cache_ev.pre_set.valid) =>
        LET s   == cache_ev.pre_set
            ttl == IF s.ttl = NoTtl THEN default_ttl ELSE s.ttl
        IN  IF cache_ev.at - s.at < ttl
            THEN cache_ev.result = Hit(s.value)
            ELSE cache_ev.result = Miss

C11_Witness ==
    /\ cache_ev.op = "get"
    /\ CacheAvailable
    /\ cache_ev.pre_set.valid
    /\ cache_ev.pre_set.ttl = NoTtl
    /\ cache_ev.at - cache_ev.pre_set.at = 1
    /\ sets = 2
    /\ cache_ev.result = Hit("hello")

\* C12: a get or set made while the cache is disabled or its store does not
\* answer raises nothing; the get returns a miss and counts exactly one miss
\* (and no hit), the set leaves the store and the sets counter as they were.
C12_DegradesToNoOp ==
    (cache_ev.op \in {"get", "set"} /\ ~CacheAvailable) =>
        /\ cache_ev.raised = NoExc
        /\ cache_ev.op = "get" =>
              /\ cache_ev.result = Miss
              /\ misses = cache_ev.pre_misses + 1
              /\ hits = cache_ev.pre_hits
        /\ cache_ev.op = "set" =>
              /\ ~cache_ev.store_changed
              /\ sets = cache_ev.pre_sets

C12_Witness ==
    /\ cache_ev.op = "get"
    /\ cache_enabled
    /\ ~cache_ev.reachable
    /\ cache_ev.pre_set.valid
    /\ cache_ev.at = cache_ev.pre_set.at
    /\ cache_ev.result = Miss
    /\ misses = 1

----------------------------------------------------------------------------
(* Properties of POST /translate/text, checked under SpecAPI *)

\* C14: a request that fails because the breaker is OPEN (the guarded call
\* raised CircuitBreakerError) is answered with status 503 and a Retry-After
\* header, never with 500.
C14_OpenBreakerGives503 ==
    (api_ev.op = "response" /\ api_ev.breaker = "CircuitBreakerError") =>
        /\ api_ev.status = 503
        /\ api_ev.retry_after > 0

\* the request was under its rate limit and the cache answered it
Served == api_ev.op = "response" /\ api_ev.limiter_allowed
              /\ cache_enabled /\ api_ev.cache_reachable

\* C15: for a request under its rate limit, with the cache working: when the
\* cache holds nothing for it and the breaker is CLOSED, a backend call that
\* succeeds is the only one made, and its result is returned and stored;
\* when the cache holds a translation stored by an earlier request (within
\* its TTL), that translation is returned, whatever it is, and neither the
\* breaker nor the backend is entered.
C15_SecondRequestServedFromCache ==
    /\ (Served /\ api_ev.pre_cached = NoBytes /\ api_ev.breaker_state = CLOSED
           /\ api_ev.backend = "returned") =>
          /\ api_ev.status = 200
          /\ ~api_ev.cached
          /\ api_ev.stored
    /\ (Served /\ api_ev.pre_cached # NoBytes) =>
          /\ api_ev.status = 200
          /\ api_ev.cached
          /\ api_ev.translated = pickle_loads(api_ev.pre_cached)
          /\ api_ev.breaker = "none"
          /\ api_ev.backend = "none"

====
